---- MODULE Spec2Model ----
(***************************************************************************)
(* A model of lemonadejs/html-to-json: the two markup parsers (the         *)
(* stack-based parser(html) and the options-taking                         *)
(* parser(html, values, options)) and the renderer render(tree, options).  *)
(*                                                                         *)
(* Strings are sequences of one-character strings.  The objects the        *)
(* parsers build live in a heap, control.nodes: a node is named by its     *)
(* index in the heap, node 1 is the root container { type: 'template' },   *)
(* and a reference to a node (current, stack entries, children, parent)    *)
(* is its index.  The reference 0 stands for undefined.                    *)
(***************************************************************************)
EXTENDS Integers, Sequences, FiniteSets, TLC

VARIABLES
    pieces,     \* the fragments the markup was written from
    impl,       \* which parser runs: "stack" (render.js:206) or "options" (parser.js:1)
    html,       \* the first argument, when it is a string
    htmlIsString, \* typeof html === 'string'
    options,    \* the options argument (and whether values === null)
    i,          \* the loop index (0-based, as in the source)
    pc,         \* "validate", "loop", "returned", "threw", "rendered"
    control,    \* the control object, with the heap of nodes it reaches
    error,      \* the exception thrown, "" when none
    finalResult,\* the node returned (0: undefined)
    out         \* render(finalResult), once rendered

vars == <<pieces, impl, html, htmlIsString, options, i, pc, control, error, finalResult, out>>

----------------------------------------------------------------------------
(* Characters *)

Lower == <<"a","b","c","d","e","f","g","h","i","j","k","l","m",
           "n","o","p","q","r","s","t","u","v","w","x","y","z">>
Upper == <<"A","B","C","D","E","F","G","H","I","J","K","L","M",
           "N","O","P","Q","R","S","T","U","V","W","X","Y","Z">>
Digits == {"0","1","2","3","4","5","6","7","8","9"}

Range(s) == { s[k] : k \in 1..Len(s) }

\* The value of html[k] for k past the end of the string, and of escape(undefined).
Undefined == "undefined"

\* The characters String(undefined) appends to a string.
UndefinedChars == <<"u","n","d","e","f","i","n","e","d">>

\* Control characters that TLA+ strings cannot spell.
CharBS == "\\b"
CharVT == "\\v"
CharNUL == "\\0"
CharBacktick == "\\q"

\* char.match(/[a-zA-Z0-9-:]/)
IsNameChar(ch) == ch \in Range(Lower) \cup Range(Upper) \cup Digits \cup {"-", ":"}

\* char.match(/\s/)
IsSpace(ch) == ch \in {" ", "\t", "\n", "\r", "\f", CharVT}

ToLowerChar(ch) ==
    IF ch \in Range(Upper) THEN Lower[CHOOSE k \in 1..Len(Upper) : Upper[k] = ch] ELSE ch

\* type.toLowerCase()
ToLowerCase(s) == [k \in 1..Len(s) |-> ToLowerChar(s[k])]

RECURSIVE Flatten(_)
Flatten(ss) == IF ss = <<>> THEN <<>> ELSE Head(ss) \o Flatten(Tail(ss))

\* s.endsWith(suffix)
EndsWith(s, suffix) ==
    /\ Len(s) >= Len(suffix)
    /\ SubSeq(s, Len(s) - Len(suffix) + 1, Len(s)) = suffix

\* The least k such that sub occurs in s at k..k+Len(sub)-1, or 0.
IndexOf(s, sub) ==
    LET hits == { k \in 1..(Len(s) - Len(sub) + 1) : SubSeq(s, k, k + Len(sub) - 1) = sub }
    IN IF hits = {} THEN 0 ELSE CHOOSE k \in hits : \A j \in hits : k <= j

\* s.replace(sub, '') with a string pattern: the first occurrence only.
ReplaceFirst(s, sub) ==
    LET k == IndexOf(s, sub)
    IN IF k = 0 THEN s ELSE SubSeq(s, 1, k - 1) \o SubSeq(s, k + Len(sub), Len(s))

Contains(s, sub) == IndexOf(s, sub) # 0

----------------------------------------------------------------------------
(* Node types *)

TemplateType == <<"t","e","m","p","l","a","t","e">>
TextType == <<"#","t","e","x","t">>
CommentsType == <<"#","c","o","m","m","e","n","t","s">>
TextContentName == <<"t","e","x","t","C","o","n","t","e","n","t">>
TextName == <<"t","e","x","t">>

\* The default void elements (render.js:217-219, parser.js:31-33).
selfClosingTags == {
    <<"a","r","e","a">>, <<"b","a","s","e">>, <<"b","r">>, <<"c","o","l">>,
    <<"e","m","b","e","d">>, <<"h","r">>, <<"i","m","g">>, <<"i","n","p","u","t">>,
    <<"l","i","n","k">>, <<"m","e","t","a">>, <<"s","o","u","r","c","e">>,
    <<"t","r","a","c","k">>, <<"w","b","r">> }

\* isSelfClosing(type): false for '' (falsy), else membership of the lower-cased name.
isSelfClosing_caseSensitive(type) == type \in selfClosingTags

isSelfClosing(type) == type # <<>> /\ ToLowerCase(type) \in selfClosingTags

\* An object of the heap.  An absent string field is <<>> where the source never
\* stores '' in it (attributeName); attributeValue keeps '' and undefined apart.
\* insideQuote is "absent", "false", or the quote character.  parent is 0 when
\* the object has no parent field.
NewObject(type) ==
    [ type |-> type, props |-> <<>>, children |-> <<>>, parent |-> 0,
      attributeName |-> <<>>,
      attributeValue |-> [def |-> FALSE, v |-> <<>>],
      attributeIsReadyToClose |-> FALSE,
      insideQuote |-> "absent",
      closingTag |-> FALSE, closing |-> FALSE, locked |-> FALSE ]

NoTag == NewObject(<<>>)

Prop(name, value) == [name |-> name, value |-> value]

----------------------------------------------------------------------------
(* The heap *)

Root == 1

\* if (!parent.children) parent.children = []; parent.children.push(obj)
\* The pushed object becomes the last object of the heap.
AddChild(c, parent, obj) ==
    [c EXCEPT !.nodes = Append([@ EXCEPT ![parent].children = Append(@, Len(c.nodes) + 1)], obj)]

\* The object as it is once closeTag has deleted its temporary fields.
\* delete insideQuote, closingTag, closing, locked (render.js:412-415).
stack_cleanup(tag) ==
    [tag EXCEPT !.insideQuote = "absent", !.closingTag = FALSE, !.closing = FALSE,
                !.locked = FALSE]

----------------------------------------------------------------------------
(* The stack-based parser: parser(html), src/src/render.js:206-589 *)

stack_createTextNode(c, prop) ==
    AddChild(c, c.current, [NewObject(TextType) EXCEPT !.props = <<prop>>])

\* this.text is undefined or non-empty (actions.text never leaves it ''),
\* so <<>> stands for undefined.
stack_commitText_lost(c) == [c EXCEPT !.text = <<>>]

\* The text with each '&amp;' decoded to '&' before it is committed.
RECURSIVE DecodeAmp(_)
DecodeAmp(s) ==
    IF s = <<>> THEN <<>>
    ELSE IF Len(s) >= 5 /\ SubSeq(s, 1, 5) = <<"&","a","m","p",";">>
         THEN <<"&">> \o DecodeAmp(SubSeq(s, 6, Len(s)))
    ELSE <<Head(s)>> \o DecodeAmp(Tail(s))

stack_commitText_decoded(c) ==
    IF c.text # <<>>
    THEN [AddChild(c, c.current,
             [NewObject(TextType) EXCEPT !.props = <<Prop(TextContentName, DecodeAmp(c.text))>>])
          EXCEPT !.text = <<>>]
    ELSE c

stack_commitText(c) ==
    IF c.text # <<>>
    THEN [stack_createTextNode(c, Prop(TextContentName, c.text)) EXCEPT !.text = <<>>]
    ELSE c

\* The comment text: the first '<!--' and then the first '-->' removed.
CommentValue(comments) == ReplaceFirst(ReplaceFirst(comments, <<"<","!","-","-">>), <<"-","-",">">>)

stack_commitComments(c) ==
    IF c.comments # <<>>
    THEN [AddChild(c, c.current,
             [NewObject(CommentsType) EXCEPT !.props = <<Prop(TextName, CommentValue(c.comments))>>])
          EXCEPT !.comments = <<>>]
    ELSE c

RECURSIVE WithoutName(_, _)
WithoutName(props, name) ==
    IF props = <<>> THEN <<>>
    ELSE (IF Head(props).name = name THEN <<>> ELSE <<Head(props)>>)
         \o WithoutName(Tail(props), name)

commitAttributeOf_lastWins(tag) ==
    IF tag.attributeName # <<>>
    THEN [tag EXCEPT
            !.props = Append(WithoutName(@, tag.attributeName),
                             Prop(tag.attributeName,
                                  IF tag.attributeValue.def THEN tag.attributeValue.v
                                  ELSE tag.attributeName)),
            !.attributeName = <<>>,
            !.attributeValue = [def |-> FALSE, v |-> <<>>],
            !.attributeIsReadyToClose = FALSE]
    ELSE tag

commitAttributeOf_emptyAsName(tag) ==
    IF tag.attributeName # <<>>
    THEN [tag EXCEPT
            !.props = Append(@, Prop(tag.attributeName,
                                     IF tag.attributeValue.v # <<>> THEN tag.attributeValue.v
                                     ELSE tag.attributeName)),
            !.attributeName = <<>>,
            !.attributeValue = [def |-> FALSE, v |-> <<>>],
            !.attributeIsReadyToClose = FALSE]
    ELSE tag

\* commitAttribute on the tag in progress (the same in both parsers, but for
\* the expression metadata of the options parser).
commitAttributeOf(tag) ==
    IF tag.attributeName # <<>>
    THEN [tag EXCEPT
            !.props = Append(@, Prop(tag.attributeName,
                                     IF tag.attributeValue.def THEN tag.attributeValue.v
                                     ELSE tag.attributeName)),
            !.attributeName = <<>>,
            !.attributeValue = [def |-> FALSE, v |-> <<>>],
            !.attributeIsReadyToClose = FALSE]
    ELSE tag

commitAttribute(c) == [c EXCEPT !.tag = commitAttributeOf(c.tag)]

stack_processTag(c, ch) ==
    LET c1 == stack_commitText(c)
    IN IF ch = "<" THEN [c1 EXCEPT !.hasTag = TRUE, !.tag = NewObject(<<>>)]
       ELSE IF IsNameChar(ch) THEN [c1 EXCEPT !.tag.type = Append(@, ch)]
       ELSE [c1 EXCEPT !.action = "attributeName"]

\* The greatest index of the stack whose element has that type, or 0.
stack_findParentByTagName(c, type) ==
    LET hits == { k \in 1..Len(c.stack) : c.nodes[c.stack[k]].type = type }
    IN IF hits = {} THEN 0 ELSE CHOOSE k \in hits : \A j \in hits : j <= k

\* while (stack.length > 0 && top !== parentNode) pop; then pop the match.
PopUntil_topOnly(stack, node) == SubSeq(stack, 1, Len(stack) - 1)

RECURSIVE PopUntil(_, _)
PopUntil(stack, node) ==
    IF stack = <<>> THEN <<>>
    ELSE IF stack[Len(stack)] = node THEN SubSeq(stack, 1, Len(stack) - 1)
    ELSE PopUntil(SubSeq(stack, 1, Len(stack) - 1), node)

Top(c) == IF Len(c.stack) > 0 THEN c.stack[Len(c.stack)] ELSE c.root

\* A closeTag that opens every tag that is no closing tag, void and
\* self-closed ones too.
stack_closeTagEnd_pushAll(c) ==
    LET tag == c.tag
        done == stack_cleanup(tag)
        c1 ==
          IF tag.closingTag /\ ~isSelfClosing(tag.type) THEN
            LET k == stack_findParentByTagName(c, tag.type)
            IN IF k # 0
               THEN LET st == PopUntil(c.stack, c.stack[k])
                    IN [c EXCEPT !.stack = st,
                                 !.current = IF Len(st) > 0 THEN st[Len(st)] ELSE c.root]
               ELSE c
          ELSE LET c2 == AddChild(c, c.current, done)
               IN [c2 EXCEPT !.stack = Append(@, Len(c2.nodes)), !.current = Len(c2.nodes)]
    IN [c1 EXCEPT !.hasTag = FALSE, !.tag = NoTag, !.action = "text"]

\* A closeTag whose closing-tag branch pops the stack and leaves current.
stack_closeTagEnd_keepCurrent(c) ==
    LET tag == c.tag
        done == stack_cleanup(tag)
        c1 ==
          IF isSelfClosing(tag.type) THEN AddChild(c, c.current, done)
          ELSE IF tag.closingTag THEN
            LET k == stack_findParentByTagName(c, tag.type)
            IN IF k # 0 THEN [c EXCEPT !.stack = PopUntil(c.stack, c.stack[k])] ELSE c
          ELSE IF tag.closing THEN AddChild(c, c.current, done)
          ELSE LET c2 == AddChild(c, c.current, done)
               IN [c2 EXCEPT !.stack = Append(@, Len(c2.nodes)), !.current = Len(c2.nodes)]
    IN [c1 EXCEPT !.hasTag = FALSE, !.tag = NoTag, !.action = "text"]

stack_closeTagEnd(c) ==
    LET tag == c.tag
        done == stack_cleanup(tag)
        c1 ==
          IF isSelfClosing(tag.type) THEN AddChild(c, c.current, done)
          ELSE IF tag.closingTag THEN
            LET k == stack_findParentByTagName(c, tag.type)
            IN IF k # 0
               THEN LET st == PopUntil(c.stack, c.stack[k])
                    IN [c EXCEPT !.stack = st,
                                 !.current = IF Len(st) > 0 THEN st[Len(st)] ELSE c.root]
               ELSE c
          ELSE IF tag.closing THEN AddChild(c, c.current, done)
          ELSE LET c2 == AddChild(c, c.current, done)
               IN [c2 EXCEPT !.stack = Append(@, Len(c2.nodes)), !.current = Len(c2.nodes)]
    IN [c1 EXCEPT !.hasTag = FALSE, !.tag = NoTag, !.action = "text"]

\* The part of closeTag for a character other than '>' (the same in both parsers).
closeTagChar(c, ch) ==
    IF c.tag.locked THEN c
    ELSE IF ch = "/" THEN
        [c EXCEPT !.tag.closingTag = IF c.tag.type = <<>> THEN TRUE ELSE @,
                  !.tag.closing = TRUE]
    ELSE IF IsNameChar(ch) THEN
        IF c.tag.closingTag THEN [c EXCEPT !.tag.type = Append(@, ch)] ELSE c
    ELSE IF c.tag.type # <<>> THEN [c EXCEPT !.tag.locked = TRUE] ELSE c

stack_closeTag(c, ch) ==
    LET c1 == commitAttribute(c)
    IN IF ch = ">" THEN stack_closeTagEnd(c1) ELSE closeTagChar(c1, ch)

\* actions.attributeName (render.js:442-465, parser.js:373-396)
attributeName(c, ch) ==
    LET c1 == IF c.tag.attributeIsReadyToClose THEN commitAttribute(c) ELSE c
    IN IF IsNameChar(ch) THEN [c1 EXCEPT !.tag.attributeName = Append(@, ch)]
       ELSE IF ch = "=" THEN
          IF c1.tag.attributeName # <<>>
          THEN [c1 EXCEPT !.action = "attributeValue", !.tag.attributeIsReadyToClose = FALSE]
          ELSE c1
       ELSE IF IsSpace(ch) THEN
          IF c1.tag.attributeName # <<>>
          THEN [c1 EXCEPT !.tag.attributeIsReadyToClose = TRUE]
          ELSE c1
       ELSE c1

InsideQuote(tag) == tag.insideQuote \notin {"absent", "false"}

\* if (attributeValue) attributeValue += char; else attributeValue = char
AppendValue(c, ch) == [c EXCEPT !.tag.attributeValue = [def |-> TRUE, v |-> Append(@.v, ch)]]

stack_attributeValue(c, ch) ==
    LET c1 == [c EXCEPT !.tag.attributeValue = [def |-> TRUE, v |-> @.v]]
    IN IF ch \in {"\"", "'"} THEN
          IF InsideQuote(c1.tag) THEN
             IF c1.tag.insideQuote = ch THEN [c1 EXCEPT !.tag.insideQuote = "false"]
             ELSE AppendValue(c1, ch)
          ELSE [c1 EXCEPT !.tag.insideQuote = ch]
       ELSE IF InsideQuote(c1.tag) THEN AppendValue(c1, ch)
       ELSE IF IsSpace(ch) THEN
          [c1 EXCEPT !.action = IF c1.tag.attributeValue.v # <<>> THEN "attributeName" ELSE @,
                     !.tag.attributeIsReadyToClose = TRUE]
       ELSE IF c1.tag.attributeIsReadyToClose
            THEN attributeName([c1 EXCEPT !.action = "attributeName"], ch)
            ELSE AppendValue(c1, ch)

stack_text(c, ch) == [c EXCEPT !.text = Append(@, ch)]

stack_comments(c, ch) ==
    LET c1 == [c EXCEPT !.comments = Append(@, ch)]
    IN IF EndsWith(c1.comments, <<"-","-",">">>)
       THEN [stack_commitComments(c1) EXCEPT !.action = "text"]
       ELSE c1

----------------------------------------------------------------------------
(* The options-taking parser: parser(html, values, options),               *)
(* src/src/parser.js:1-623.  values is null or has no entries (undefined,  *)
(* or an object without numeric keys), so getExpression always returns ''. *)

\* escape(char): escapeMap[char] || char
escape(ch) ==
    CASE ch = "n" -> "\n"
      [] ch = "r" -> "\r"
      [] ch = "t" -> "\t"
      [] ch = "b" -> CharBS
      [] ch = "f" -> "\f"
      [] ch = "v" -> CharVT
      [] ch = "0" -> CharNUL
      [] OTHER -> ch

\* s += char, for a char that may be '' (an expression value) or undefined.
AppendChar(s, ch) ==
    IF ch = "" THEN s
    ELSE IF ch = Undefined THEN s \o UndefinedChars
    ELSE Append(s, ch)

\* text.replace(/\r?\n/g, ''): the whitespace after a newline is kept.
NormalizeFrom_newlineOnly(text, k, skipping) ==
    LET kept == { m \in k..Len(text) :
                    /\ text[m] # "\n"
                    /\ ~(text[m] = "\r" /\ m < Len(text) /\ text[m + 1] = "\n") }
        RECURSIVE Keep(_)
        Keep(m) == IF m > Len(text) THEN <<>>
                   ELSE (IF m \in kept THEN <<text[m]>> ELSE <<>>) \o Keep(m + 1)
    IN Keep(k)

\* text.replace(/\r?\n\s*/g, '')
RECURSIVE NormalizeFrom(_, _, _)
NormalizeFrom(text, k, skipping) ==
    IF k > Len(text) THEN <<>>
    ELSE IF skipping /\ IsSpace(text[k]) THEN NormalizeFrom(text, k + 1, TRUE)
    ELSE IF text[k] = "\n" THEN NormalizeFrom(text, k + 1, TRUE)
    ELSE IF text[k] = "\r" /\ k < Len(text) /\ text[k + 1] = "\n"
         THEN NormalizeFrom(text, k + 2, TRUE)
    ELSE <<text[k]>> \o NormalizeFrom(text, k + 1, FALSE)

opts_createTextNode(c, opt, prop) ==
    AddChild(c, c.current,
             [NewObject(TextType) EXCEPT !.props = <<prop>>,
                                         !.parent = IF opt.excludeParent THEN 0 ELSE c.current])

opts_commitText(c, opt) ==
    IF c.text # <<>>
    THEN LET text == IF opt.preserveWhitespace THEN c.text ELSE NormalizeFrom(c.text, 1, FALSE)
         IN [(IF text # <<>> THEN opts_createTextNode(c, opt, Prop(TextContentName, text)) ELSE c)
             EXCEPT !.text = <<>>]
    ELSE c

opts_commitComments(c, opt) ==
    IF c.comments # <<>>
    THEN [AddChild(c, c.current,
             [NewObject(CommentsType) EXCEPT
                 !.props = <<Prop(TextName, CommentValue(c.comments))>>,
                 !.parent = IF opt.excludeParent THEN 0 ELSE c.current])
          EXCEPT !.comments = <<>>]
    ELSE c

\* getExpression: the value is '' (values has no entries); the index moves on
\* and the reference is deleted.
getExpression(c) == [c EXCEPT !.index = @ + 1, !.reference = <<>>]

\* A TypeError: char.match on an undefined char.
Throw(c) == [c EXCEPT !.threw = TRUE]

opts_processTag(c, opt, ch) ==
    LET c1 == opts_commitText(c, opt)
    IN IF ch = "<" THEN
          [c1 EXCEPT !.hasTag = TRUE,
                     !.tag = [NewObject(<<>>) EXCEPT
                                 !.parent = IF opt.excludeParent THEN 0 ELSE c1.current]]
       ELSE IF ch = Undefined THEN Throw(c1)
       ELSE IF IsNameChar(ch) THEN [c1 EXCEPT !.tag.type = Append(@, ch)]
       ELSE IF ch = "$" /\ c1.reference # <<>>
            THEN [getExpression(c1) EXCEPT !.tag.type = <<>>, !.action = "attributeName"]
            ELSE [c1 EXCEPT !.action = "attributeName"]

\* findParentByTagName(node, type), up the parent fields.
RECURSIVE opts_findParentByTagName(_, _, _)
opts_findParentByTagName(nodes, node, type) ==
    IF node # 0 /\ type # <<>>
    THEN IF nodes[node].type = type THEN node
         ELSE IF nodes[node].parent # 0
              THEN opts_findParentByTagName(nodes, nodes[node].parent, type)
              ELSE 0
    ELSE 0

addWarning(c, message, type, position) ==
    [c EXCEPT !.warnings = Append(@, [type |-> "warning", message |-> message,
                                      tag |-> type, position |-> position])]

\* delete insideQuote, closingTag, closing (parser.js:344-346): locked stays.
opts_cleanup(tag) ==
    [tag EXCEPT !.insideQuote = "absent", !.closingTag = FALSE, !.closing = FALSE]

opts_closeTagEnd(c) ==
    LET tag == c.tag
        done == opts_cleanup(tag)
        parentNode == IF tag.parent # 0 THEN tag.parent ELSE c.current
        c1 ==
          IF isSelfClosing(tag.type) THEN AddChild(c, parentNode, done)
          ELSE IF tag.closingTag THEN
            LET found == opts_findParentByTagName(c.nodes, parentNode, tag.type)
            IN IF found # 0
               THEN [c EXCEPT !.current = IF c.nodes[found].parent # 0
                                          THEN c.nodes[found].parent ELSE @]
               ELSE addWarning(c, "Closing tag has no matching opening tag", tag.type, c.position)
          ELSE IF tag.closing THEN [c EXCEPT !.current = parentNode]
          ELSE LET c2 == AddChild(c, parentNode, done)
               IN [c2 EXCEPT !.current = Len(c2.nodes)]
    IN [c1 EXCEPT !.hasTag = FALSE, !.tag = NoTag, !.action = "text"]

opts_closeTag(c, ch) ==
    LET c1 == commitAttribute(c)
    IN IF ch = ">" THEN opts_closeTagEnd(c1)
       ELSE IF ~c1.tag.locked /\ ch = Undefined THEN Throw(c1)
       ELSE closeTagChar(c1, ch)

opts_attributeName(c, ch) ==
    IF ch = Undefined
    THEN Throw(IF c.tag.attributeIsReadyToClose THEN commitAttribute(c) ELSE c)
    ELSE attributeName(c, ch)

\* if (attributeValue) attributeValue += char; else attributeValue = char
opts_setValue(c, ch) ==
    IF ch = Undefined /\ c.tag.attributeValue.v = <<>>
    THEN [c EXCEPT !.tag.attributeValue = [def |-> FALSE, v |-> <<>>]]
    ELSE [c EXCEPT !.tag.attributeValue = [def |-> TRUE, v |-> AppendChar(@.v, ch)]]

opts_attributeValue(c, char) ==
    LET c1 == [c EXCEPT !.tag.attributeValue = [def |-> TRUE, v |-> @.v]]
    IN IF char \in {"\"", "'"} THEN
          IF InsideQuote(c1.tag) THEN
             IF c1.tag.insideQuote = char THEN [c1 EXCEPT !.tag.insideQuote = "false"]
             ELSE AppendValue(c1, char)
          ELSE [c1 EXCEPT !.tag.insideQuote = char]
       ELSE
          LET expr == char = "$" /\ c1.reference # <<>>
              c2 == IF expr THEN getExpression(c1) ELSE c1
              ch == IF expr THEN "" ELSE char
          IN IF InsideQuote(c2.tag) THEN opts_setValue(c2, ch)
             ELSE IF ch # Undefined /\ IsSpace(ch) THEN
                [c2 EXCEPT !.action = IF c2.tag.attributeValue.v # <<>> THEN "attributeName" ELSE @,
                           !.tag.attributeIsReadyToClose = TRUE]
             ELSE IF c2.tag.attributeIsReadyToClose
                  THEN opts_attributeName([c2 EXCEPT !.action = "attributeName"], ch)
                  ELSE opts_setValue(c2, ch)

opts_text(c, opt, ch, referenceControl) ==
    IF ch = "$" /\ c.reference # <<>>
    THEN opts_createTextNode(getExpression(opts_commitText(c, opt)), opt,
                             Prop(TextContentName, <<>>))
    ELSE LET c1 == IF referenceControl = 1 THEN opts_commitText(c, opt) ELSE c
             c2 == [c1 EXCEPT !.text = AppendChar(@, ch)]
         IN IF referenceControl = 2 THEN opts_commitText(c2, opt) ELSE c2

opts_comments(c, opt, ch) ==
    LET c1 == [c EXCEPT !.comments = Append(@, ch)]
    IN IF EndsWith(c1.comments, <<"-","-",">">>)
       THEN [opts_commitComments(c1, opt) EXCEPT !.action = "text"]
       ELSE c1

\* extractExpressionContent(html, startIndex): the content, and the position of
\* the closing brace (html.length when there is none).  Positions are 0-based.
RECURSIVE extractFrom(_, _, _, _, _, _)
extractFrom(s, k, text, insideQuotes, braceDepth, escaped) ==
    IF k >= Len(s) THEN [content |-> text, position |-> k]
    ELSE LET ch == s[k + 1]
         IN IF escaped THEN extractFrom(s, k + 1, Append(text, ch), insideQuotes, braceDepth, FALSE)
            ELSE IF ch = "\\" THEN extractFrom(s, k + 1, Append(text, ch), insideQuotes, braceDepth, TRUE)
            ELSE LET q == IF ch \in {"\"", "'", CharBacktick}
                          THEN IF insideQuotes = "" THEN ch
                               ELSE IF ch = insideQuotes THEN "" ELSE insideQuotes
                          ELSE insideQuotes
                 IN IF q = "" /\ ch = "}" /\ braceDepth = 0
                    THEN [content |-> text, position |-> k]
                    ELSE extractFrom(s, k + 1, Append(text, ch), q,
                                     IF q = "" /\ ch = "{" THEN braceDepth + 1
                                     ELSE IF q = "" /\ ch = "}" THEN braceDepth - 1
                                     ELSE braceDepth,
                                     FALSE)

\* An extraction that reports the position of the '$' it started after.
extractExpressionContent_rewind(s, startIndex) ==
    [content |-> <<"x">>, position |-> startIndex - 3]

extractExpressionContent(s, startIndex) == extractFrom(s, startIndex, <<>>, "", 0, FALSE)

----------------------------------------------------------------------------
(* parser(html, options) with options.ignore, as src/src/parser.js:681-736  *)
(* declares it and src/unnamed/part_001 calls it.  Its body is not among    *)
(* the sources: it is taken to be the stack-based parser, in which an       *)
(* element whose name is in options.ignore (case-insensitively) is opened   *)
(* and closed on the stack as usual but is not pushed to its parent's       *)
(* children, so that it and all it comes to contain stay out of the tree.   *)

ignore_matches_caseSensitive(opt, type) == type \in opt.ignore

\* Whether options.ignore names the tag, case-insensitively.
ignore_matches(opt, type) ==
    \E name \in opt.ignore : ToLowerCase(name) = ToLowerCase(type)

\* The object enters the heap without being pushed to any children.
ignore_detach(c, obj) == [c EXCEPT !.nodes = Append(@, obj)]

ignore_attach_never(c, opt, parent, obj) == ignore_detach(c, obj)

ignore_attach(c, opt, parent, obj) ==
    IF ignore_matches(opt, obj.type) THEN ignore_detach(c, obj) ELSE AddChild(c, parent, obj)

ignore_closeTagEnd(c, opt) ==
    LET tag == c.tag
        done == stack_cleanup(tag)
        c1 ==
          IF isSelfClosing(tag.type) THEN ignore_attach(c, opt, c.current, done)
          ELSE IF tag.closingTag THEN
            LET k == stack_findParentByTagName(c, tag.type)
            IN IF k # 0
               THEN LET st == PopUntil(c.stack, c.stack[k])
                    IN [c EXCEPT !.stack = st,
                                 !.current = IF Len(st) > 0 THEN st[Len(st)] ELSE c.root]
               ELSE c
          ELSE IF tag.closing THEN ignore_attach(c, opt, c.current, done)
          ELSE LET c2 == ignore_attach(c, opt, c.current, done)
               IN [c2 EXCEPT !.stack = Append(@, Len(c2.nodes)), !.current = Len(c2.nodes)]
    IN [c1 EXCEPT !.hasTag = FALSE, !.tag = NoTag, !.action = "text"]

ignore_closeTag(c, opt, ch) ==
    LET c1 == commitAttribute(c)
    IN IF ch = ">" THEN ignore_closeTagEnd(c1, opt) ELSE closeTagChar(c1, ch)

----------------------------------------------------------------------------
(* The main loops *)

\* html[k], 0-based; undefined outside the string.
At(s, k) == IF k >= 0 /\ k < Len(s) THEN s[k + 1] ELSE Undefined

\* control.action === 'text' && char === '<' && html[i+1..i+3] === '!--'
CommentStart(c, s, k) ==
    /\ c.action = "text"
    /\ At(s, k) = "<" /\ At(s, k + 1) = "!" /\ At(s, k + 2) = "-" /\ At(s, k + 3) = "-"

ControlLogic_noQuoteGuard(c, action, ch) ==
    IF action = "comments" THEN action
    ELSE IF c.hasTag
         THEN IF ch \in {">", "/"} THEN "closeTag" ELSE action
         ELSE IF ch = "<" THEN "processTag" ELSE action

\* The global control logic: the action that handles char.
ControlLogic(c, action, ch) ==
    IF action = "comments" THEN action
    ELSE IF c.hasTag
         THEN IF ch \in {">", "/"} /\ ~InsideQuote(c.tag) THEN "closeTag" ELSE action
         ELSE IF ch = "<" THEN "processTag" ELSE action

\* render.js:544-566: the character and the control object as actions() gets them.
stack_prepare(c, s, k) ==
    LET a1 == IF CommentStart(c, s, k) THEN "comments" ELSE c.action
    IN [ c |-> [c EXCEPT !.action = ControlLogic(c, a1, At(s, k))],
         char |-> At(s, k), i |-> k, referenceControl |-> 0 ]

\* parser.js:529-581.  i is the index after the escape and the expression jump.
opts_prepare(c, opt, s, k) ==
    LET a1 == IF CommentStart(c, s, k) THEN "comments" ELSE c.action
        c1 == [c EXCEPT !.position = k]
    IN IF a1 = "comments"
       THEN [ c |-> [c1 EXCEPT !.action = a1], char |-> At(s, k), i |-> k,
              referenceControl |-> 0 ]
       ELSE
         LET escaped == ~opt.valuesNull /\ At(s, k) = "\\"
             ch == IF escaped THEN escape(At(s, k + 1)) ELSE At(s, k)
             k1 == IF escaped THEN k + 1 ELSE k
             a2 == ControlLogic(c1, a1, ch)
             ref == ~escaped /\ ch = "$" /\ At(s, k1 + 1) = "{"
             r == extractExpressionContent(s, k1 + 2)
             k2 == IF ref THEN r.position ELSE k1
             rc == IF ch = "{" /\ At(s, k2 + 1) = "{" THEN 1
                   ELSE IF ch = "}" /\ At(s, k2 - 1) = "}" THEN 2 ELSE 0
         IN [ c |-> [c1 EXCEPT !.action = a2,
                               !.reference = IF ref THEN r.content ELSE @],
              char |-> ch, i |-> k2, referenceControl |-> rc ]

PreparedOf(parser, c, opt, s, k) ==
    IF parser = "options" THEN opts_prepare(c, opt, s, k) ELSE stack_prepare(c, s, k)

Prepared == PreparedOf(impl, control, options, html, i)

\* An action that reads this.tag while there is none throws a TypeError.
NeedsTag(action, ch) ==
    \/ action \in {"closeTag", "attributeName", "attributeValue"}
    \/ action = "processTag" /\ ch # "<"

\* actions(control, char)
DispatchOf(parser, opt, p) ==
    LET c == p.c
        ch == p.char
    IN IF NeedsTag(c.action, ch) /\ ~c.hasTag THEN Throw(c)
       ELSE IF parser = "options" THEN
          CASE c.action = "text" -> opts_text(c, opt, ch, p.referenceControl)
            [] c.action = "comments" -> opts_comments(c, opt, ch)
            [] c.action = "processTag" -> opts_processTag(c, opt, ch)
            [] c.action = "closeTag" -> opts_closeTag(c, ch)
            [] c.action = "attributeName" -> opts_attributeName(c, ch)
            [] c.action = "attributeValue" -> opts_attributeValue(c, ch)
       ELSE
          CASE c.action = "text" -> stack_text(c, ch)
            [] c.action = "comments" -> stack_comments(c, ch)
            [] c.action = "processTag" -> stack_processTag(c, ch)
            [] c.action = "closeTag" ->
                 IF parser = "ignore" THEN ignore_closeTag(c, opt, ch) ELSE stack_closeTag(c, ch)
            [] c.action = "attributeName" -> attributeName(c, ch)
            [] c.action = "attributeValue" -> stack_attributeValue(c, ch)

Dispatch(p) == DispatchOf(impl, options, p)

\* The result: undefined, the only top-level node, or the template wrapper.
FinalResult(c) ==
    LET children == c.nodes[c.root].children
    IN IF Len(children) = 1 THEN children[1]
       ELSE IF Len(children) > 1 THEN c.root
       ELSE 0

\* A field of the envelope: a list, or undefined.
Defined(list) == [def |-> TRUE, v |-> list]
NotDefined == [def |-> FALSE, v |-> <<>>]

\* The envelope with both lists whenever one of them is requested.
ReturnValue_bothLists(c, opt) ==
    IF opt.includeErrors \/ opt.includeWarnings
    THEN [ envelope |-> TRUE, result |-> FinalResult(c),
           errors |-> Defined(c.errors), warnings |-> Defined(c.warnings) ]
    ELSE [ envelope |-> FALSE, result |-> FinalResult(c),
           errors |-> NotDefined, warnings |-> NotDefined ]

\* parser.js:613-622: the envelope when errors or warnings are requested.
ReturnValue(c, opt) ==
    IF opt.includeErrors \/ opt.includeWarnings
    THEN [ envelope |-> TRUE, result |-> FinalResult(c),
           errors |-> IF opt.includeErrors THEN Defined(c.errors) ELSE NotDefined,
           warnings |-> IF opt.includeWarnings THEN Defined(c.warnings) ELSE NotDefined ]
    ELSE [ envelope |-> FALSE, result |-> FinalResult(c),
           errors |-> NotDefined, warnings |-> NotDefined ]

\* parser.js:593-598: one warning per open element, from current up the parents.
RECURSIVE UnclosedSweep(_, _, _)
UnclosedSweep(c, checkNode, length) ==
    IF checkNode # 0 /\ c.nodes[checkNode].type # TemplateType
    THEN UnclosedSweep(addWarning(c, "Unclosed tag", c.nodes[checkNode].type, length),
                       c.nodes[checkNode].parent, length)
    ELSE c

stack_finish(c) == stack_commitText(c)

opts_finish(c, opt, s) ==
    LET c1 == opts_commitText(c, opt)
    IN UnclosedSweep(c1, c1.current, Len(s))

\* An end of input that commits the comment in progress as well.
FinishOf_flush(parser, c, opt, s) ==
    IF parser = "options" THEN opts_finish(opts_commitComments(c, opt), opt, s)
    ELSE stack_finish(stack_commitComments(c))

FinishOf(parser, c, opt, s) ==
    IF parser = "options" THEN opts_finish(c, opt, s) ELSE stack_finish(c)

----------------------------------------------------------------------------
(* The renderer: render(tree, options), src/src/render.js:14-199 *)

\* String.replace(/ch/g, repl)
RECURSIVE ReplaceAll(_, _, _)
ReplaceAll(s, ch, repl) ==
    IF s = <<>> THEN <<>>
    ELSE (IF Head(s) = ch THEN repl ELSE <<Head(s)>>) \o ReplaceAll(Tail(s), ch, repl)

Amp == <<"&","a","m","p",";">>
Lt == <<"&","l","t",";">>
Gt == <<"&","g","t",";">>
Quot == <<"&","q","u","o","t",";">>
Apos == <<"&","#","3","9",";">>

\* A prop value that is undefined or null, and a null entry of props.
UndefinedValue == <<Undefined>>
Null == "null"
NullValue == <<Null>>
NullProp == [name |-> NullValue, value |-> NullValue]

\* The value as it is, nothing replaced.
escapeAttribute_raw(value) == value

escapeAttribute(value) ==
    IF value \in {UndefinedValue, NullValue} THEN <<>>
    ELSE ReplaceAll(ReplaceAll(ReplaceAll(ReplaceAll(ReplaceAll(value,
        "&", Amp), "\"", Quot), "<", Lt), ">", Gt), "'", Apos)

escapeText_ampLast(value) ==
    IF value \in {UndefinedValue, NullValue} THEN <<>>
    ELSE ReplaceAll(ReplaceAll(ReplaceAll(value, "<", Lt), ">", Gt), "&", Amp)

escapeText(value) ==
    IF value \in {UndefinedValue, NullValue} THEN <<>>
    ELSE ReplaceAll(ReplaceAll(ReplaceAll(value, "&", Amp), "<", Lt), ">", Gt)

\* `${text}` of a template literal: String(text).
Interpolated(value) ==
    IF value = UndefinedValue THEN UndefinedChars
    ELSE IF value = NullValue THEN <<"n","u","l","l">>
    ELSE value

\* props.find(p => p.name === propName): its value, or ''.
getPropValue(node, propName) ==
    LET hits == { k \in 1..Len(node.props) : node.props[k].name = propName }
    IN IF hits = {} THEN <<>>
       ELSE node.props[CHOOSE k \in hits : \A j \in hits : k <= j].value

RECURSIVE Join(_, _)
Join(parts, sep) ==
    IF parts = <<>> THEN <<>>
    ELSE IF Len(parts) = 1 THEN parts[1]
    ELSE parts[1] \o sep \o Join(Tail(parts), sep)

\* .filter(fragment => fragment !== '')
RECURSIVE KeepNonEmpty(_)
KeepNonEmpty(seq) ==
    IF seq = <<>> THEN <<>>
    ELSE (IF Head(seq) # <<>> THEN <<Head(seq)>> ELSE <<>>) \o KeepNonEmpty(Tail(seq))

\* .filter(prop => prop && typeof prop.name === 'string' && prop.name.length
\*                  && prop.name !== 'textContent')
RECURSIVE KeepAttributes(_)
KeepAttributes(props) ==
    IF props = <<>> THEN <<>>
    ELSE (IF /\ Head(props) # NullProp
             /\ Head(props).name \notin {<<>>, UndefinedValue, NullValue}
             /\ Head(props).name # TextContentName
          THEN <<Head(props)>> ELSE <<>>) \o KeepAttributes(Tail(props))

renderAttributes_noUndefined(node) ==
    LET props == KeepAttributes(node.props)
        attrs == [k \in 1..Len(props) |->
                    props[k].name \o <<"=", "\"">> \o escapeAttribute(props[k].value) \o <<"\"">>]
    IN IF Len(attrs) > 0 THEN <<" ">> \o Join(attrs, <<" ">>) ELSE <<>>

renderAttributes(node) ==
    LET props == KeepAttributes(node.props)
        attrs == [k \in 1..Len(props) |->
                    LET value == IF props[k].value = UndefinedValue
                                 THEN props[k].name ELSE props[k].value
                    IN props[k].name \o <<"=", "\"">> \o escapeAttribute(value) \o <<"\"">>]
    IN IF Len(attrs) > 0 THEN <<" ">> \o Join(attrs, <<" ">>) ELSE <<>>

RECURSIVE Repeat(_, _)
Repeat(s, n) == IF n = 0 THEN <<>> ELSE s \o Repeat(s, n - 1)

RECURSIVE renderNode(_, _, _, _)
RECURSIVE renderChildren(_, _, _, _)

\* The children joined without the filter of the empty fragments.
renderChildren_noFilter(nodes, children, depth, settings) ==
    LET fragments == [k \in 1..Len(children) |-> renderNode(nodes, children[k], depth, settings)]
    IN Join(fragments, IF settings.pretty THEN <<"\n">> ELSE <<>>)

renderChildren(nodes, children, depth, settings) ==
    LET fragments == [k \in 1..Len(children) |-> renderNode(nodes, children[k], depth, settings)]
    IN Join(KeepNonEmpty(fragments), IF settings.pretty THEN <<"\n">> ELSE <<>>)

renderNode(nodes, node, depth, settings) ==
    IF node = 0 THEN <<>>
    ELSE
      LET n == nodes[node]
          indent == IF settings.pretty THEN Repeat(settings.indent, depth) ELSE <<>>
          newline == IF settings.pretty THEN <<"\n">> ELSE <<>>
      IN IF n.type = TemplateType THEN renderChildren(nodes, n.children, depth, settings)
         ELSE IF n.type = TextType THEN indent \o escapeText(getPropValue(n, TextContentName))
         ELSE IF n.type = CommentsType
              THEN indent \o <<"<","!","-","-">> \o Interpolated(getPropValue(n, TextName))
                   \o <<"-","-",">">>
         ELSE IF n.type \in {<<>>, UndefinedValue, NullValue} THEN <<>>
         ELSE
           LET attributes == renderAttributes(n)
               hasChildren == Len(n.children) > 0
               children == IF hasChildren
                           THEN renderChildren(nodes, n.children, depth + 1, settings)
                           ELSE <<>>
               canSelfClose == ~hasChildren /\
                   (settings.xmlMode \/ ToLowerCase(n.type) \in settings.voidElements)
           IN IF canSelfClose THEN indent \o <<"<">> \o n.type \o attributes \o <<" ","/",">">>
              ELSE IF settings.pretty /\ hasChildren /\ children # <<>>
                   THEN indent \o <<"<">> \o n.type \o attributes \o <<">">> \o newline
                        \o children \o newline \o indent \o <<"<","/">> \o n.type \o <<">">>
              ELSE indent \o <<"<">> \o n.type \o attributes \o <<">">> \o children
                   \o <<"<","/">> \o n.type \o <<">">>

\* render(tree, {}): the settings of render.js:16-27 with no option given.
DefaultSettings ==
    [pretty |-> FALSE, indent |-> <<" ", " ">>, xmlMode |-> FALSE,
     voidElements |-> selfClosingTags]

\* The options argument of render when none is given: indent '' and no
\* selfClosingTags are the absent ones.
NoRenderOptions ==
    [pretty |-> FALSE, indent |-> <<>>, xmlMode |-> FALSE,
     selfClosingTags |-> [given |-> FALSE, tags |-> {}]]

\* The settings when the selfClosingTags option is not looked at.
SettingsOf_defaultVoid(opt) ==
    [pretty |-> opt.pretty,
     indent |-> IF opt.indent = <<>> THEN <<" ", " ">> ELSE opt.indent,
     xmlMode |-> opt.xmlMode,
     voidElements |-> selfClosingTags]

\* voidElements and settings of render.js:16-27.
SettingsOf(opt) ==
    [pretty |-> opt.pretty,
     indent |-> IF opt.indent = <<>> THEN <<" ", " ">> ELSE opt.indent,
     xmlMode |-> opt.xmlMode,
     voidElements |-> IF opt.selfClosingTags.given
                      THEN { ToLowerCase(tag) : tag \in opt.selfClosingTags.tags }
                      ELSE selfClosingTags]

\* props.find(p => p.name === propName) reads p.name of every entry up to the
\* first match: a null entry among them is a TypeError.
getPropValueThrows(node, propName) ==
    \E k \in 1..Len(node.props) :
        /\ node.props[k] = NullProp
        /\ \A j \in 1..(k - 1) : node.props[j].name # propName

\* renderNode throws: some text or comment node it reaches has such props.
RECURSIVE renderThrows(_, _)
renderThrows(nodes, node) ==
    IF node = 0 THEN FALSE
    ELSE LET n == nodes[node]
             below == \E k \in 1..Len(n.children) : renderThrows(nodes, n.children[k])
         IN IF n.type = TemplateType THEN below
            ELSE IF n.type = TextType THEN getPropValueThrows(n, TextContentName)
            ELSE IF n.type = CommentsType THEN getPropValueThrows(n, TextName)
            ELSE IF n.type \in {<<>>, UndefinedValue, NullValue} THEN FALSE
            ELSE below

render(nodes, tree, settings) == renderNode(nodes, tree, 0, settings)

----------------------------------------------------------------------------
(* normalizeHTML of the round-trip tests *)

\* The index of the first character at or after k that is not whitespace.
RECURSIVE SkipSpaces(_, _)
SkipSpaces(s, k) == IF k <= Len(s) /\ IsSpace(s[k]) THEN SkipSpaces(s, k + 1) ELSE k

\* .replace(/>\s+</g, '><')
RECURSIVE BetweenTags(_, _)
BetweenTags(s, k) ==
    IF k > Len(s) THEN <<>>
    ELSE LET m == SkipSpaces(s, k + 1)
         IN IF s[k] = ">" /\ m > k + 1 /\ m <= Len(s) /\ s[m] = "<"
            THEN <<">", "<">> \o BetweenTags(s, m + 1)
            ELSE <<s[k]>> \o BetweenTags(s, k + 1)

\* .replace(/\s+/g, ' ')
RECURSIVE CollapseSpaces(_, _)
CollapseSpaces(s, k) ==
    IF k > Len(s) THEN <<>>
    ELSE IF IsSpace(s[k]) THEN <<" ">> \o CollapseSpaces(s, SkipSpaces(s, k))
    ELSE <<s[k]>> \o CollapseSpaces(s, k + 1)

\* .trim()
RECURSIVE TrimEnd(_)
TrimEnd(s) == IF s # <<>> /\ IsSpace(s[Len(s)]) THEN TrimEnd(SubSeq(s, 1, Len(s) - 1)) ELSE s

Trim(s) == TrimEnd(SubSeq(s, SkipSpaces(s, 1), Len(s)))

normalizeHTML(s) == Trim(CollapseSpaces(BetweenTags(s, 1), 1))

----------------------------------------------------------------------------
(* Inputs *)

\* The most fragments a markup string is written from.
MaxPieces == 3

Fragment(kind, name, text) == [kind |-> kind, name |-> name, text |-> text]

Fragments == {
    Fragment("open", <<"a">>, <<"<","a",">">>),
    Fragment("close", <<"a">>, <<"<","/","a",">">>),
    Fragment("open", <<"b">>, <<"<","b"," ","k","=","\"","v","\"",">">>),
    Fragment("close", <<"b">>, <<"<","/","b",">">>),
    Fragment("void", <<"b","r">>, <<"<","b","r"," ","/",">">>),
    Fragment("bare", <<"B","R">>, <<"<","B","R",">">>),
    Fragment("selfclose", <<"a">>, <<"<","a","/",">">>),
    Fragment("text", <<>>, <<"x">>),
    Fragment("text", <<>>, <<"\n", " ">>),
    Fragment("comment", <<>>, <<"<","!","-","-","c","-","-",">">>),
    Fragment("raw", <<>>, <<"<">>),
    Fragment("raw", <<>>, <<"\\">>) }

Markups(fragments, n) == UNION { [1..m -> fragments] : m \in 0..n }

TextOf(ps) == Flatten([k \in 1..Len(ps) |-> ps[k].text])

DefaultOptions ==
    [ valuesNull |-> FALSE, excludeParent |-> FALSE, preserveWhitespace |-> FALSE,
      includeErrors |-> FALSE, includeWarnings |-> FALSE, ignore |-> {},
      render |-> NoRenderOptions ]

\* const result = { type: 'template' }; const control = { ... }
InitControl ==
    [ root |-> Root, current |-> Root, stack |-> <<>>, action |-> "text",
      hasTag |-> FALSE, tag |-> NoTag, text |-> <<>>, comments |-> <<>>,
      index |-> 0, reference |-> <<>>, position |-> 0,
      errors |-> <<>>, warnings |-> <<>>, threw |-> FALSE,
      nodes |-> <<NewObject(TemplateType)>> ]

\* The whole loop as a function of the markup: for (let i = 0; i < html.length; i++)
RECURSIVE RunLoop(_, _, _, _, _)
RunLoop(parser, c, opt, s, k) ==
    IF k >= Len(s) \/ c.threw THEN c
    ELSE LET p == PreparedOf(parser, c, opt, s, k)
         IN RunLoop(parser, DispatchOf(parser, opt, p), opt, s, p.i + 1)

\* parser(html, ...): the control object after the loop and the final commit.
Parse(parser, s, opt) == FinishOf(parser, RunLoop(parser, InitControl, opt, s, 0), opt, s)

InitWith(ps, isString, parser, opt) ==
    /\ pieces = ps
    /\ html = TextOf(ps)
    /\ htmlIsString = isString
    /\ impl = parser
    /\ options = opt
    /\ i = 0
    /\ pc = "validate"
    /\ control = InitControl
    /\ error = ""
    /\ finalResult = 0
    /\ out = <<>>

Init ==
    \E ps \in Markups(Fragments, MaxPieces), isString \in BOOLEAN, parser \in {"stack", "options"} :
        /\ ~isString => ps = <<>>
        /\ InitWith(ps, isString, parser, DefaultOptions)

\* The markups and options of parser(html, { ignore }).
IgnoreFragments == {
    Fragment("open", <<"s">>, <<"<","s",">">>),
    Fragment("close", <<"s">>, <<"<","/","s",">">>),
    Fragment("element", <<"S">>, <<"<","S"," ","k","=","\"","v","\"",">","x","<","/","S",">">>),
    Fragment("open", <<"a">>, <<"<","a",">">>),
    Fragment("close", <<"a">>, <<"<","/","a",">">>),
    Fragment("text", <<>>, <<"x">>),
    Fragment("comment", <<>>, <<"<","!","-","-","c","-","-",">">>) }

IgnoreLists == { {}, {<<"s">>} }

InitIgnore ==
    \E ps \in Markups(IgnoreFragments, MaxPieces), ignore \in IgnoreLists :
        InitWith(ps, TRUE, "ignore", [DefaultOptions EXCEPT !.ignore = ignore])

\* The markups and options of the structural warnings of the options-taking parser.
WarningFragments == {
    Fragment("open", <<"a">>, <<"<","a",">">>),
    Fragment("close", <<"a">>, <<"<","/","a",">">>),
    Fragment("open", <<"b">>, <<"<","b"," ","k","=","\"","v","\"",">">>),
    Fragment("close", <<"b">>, <<"<","/","b",">">>),
    Fragment("close", <<"b","r">>, <<"<","/","b","r",">">>),
    Fragment("open", TemplateType, <<"<","t","e","m","p","l","a","t","e",">">>),
    Fragment("close", TemplateType, <<"<","/","t","e","m","p","l","a","t","e",">">>),
    Fragment("text", <<>>, <<"x">>),
    Fragment("comment", <<>>, <<"<","!","-","-","c","-","-",">">>) }

WarningOptions == { DefaultOptions, [DefaultOptions EXCEPT !.includeWarnings = TRUE] }

InitWarnings ==
    \E ps \in Markups(WarningFragments, MaxPieces), opt \in WarningOptions :
        InitWith(ps, TRUE, "options", opt)

\* One tag <a ...> and what follows it: the attributes it is written with, each
\* with the name and the value it is written to have.
Attribute(name, value, text) ==
    [kind |-> "attribute", name |-> name, value |-> value, text |-> text]

AttributeFragments == {
    Attribute(<<"k">>, <<"v">>, <<" ","k","=","\"","v","\"">>),
    Attribute(<<"k">>, <<"w">>, <<" ","k","=","'","w","'">>),
    Attribute(<<"j">>, <<"j">>, <<" ","j">>),
    Attribute(<<"k">>, <<>>, <<" ","k","=","\"","\"">>),
    Attribute(<<"j">>, <<"u">>, <<" ","j","=","u">>),
    Attribute(<<"q">>, <<"a"," ","<","/",">","'">>,
              <<" ","q","=","\"","a"," ","<","/",">","'","\"">>) }

TagStart == Fragment("start", <<"a">>, <<"<","a">>)

TagEnds == {
    Fragment("end", <<>>, <<">","x">>),
    Fragment("end", <<>>, <<"/",">">>),
    Fragment("end", <<>>, <<">","<","!","-","-","c","-","-",">">>) }

InitAttributes ==
    \E attrs \in Markups(AttributeFragments, MaxPieces), end \in TagEnds,
       parser \in {"stack", "options"} :
        InitWith(<<TagStart>> \o attrs \o <<end>>, TRUE, parser, DefaultOptions)

\* Markup with comments <!--X-->: the name of a comment fragment is its X.
Comment(x) == Fragment("comment", x, <<"<","!","-","-">> \o x \o <<"-","-",">">>)

CommentFragments == {
    Comment(<<" ", "c", " ">>),
    Comment(<<">">>),
    Comment(<<"-">>),
    Comment(<<"<","!","-","-">>),
    Fragment("open", <<"a">>, <<"<","a"," ","k","=","\"","v","\"",">">>),
    Fragment("close", <<"a">>, <<"<","/","a",">">>),
    Fragment("text", <<>>, <<"x">>) }

InitComments ==
    \E ps \in Markups(CommentFragments, MaxPieces), parser \in {"stack", "options"} :
        InitWith(ps, TRUE, parser, DefaultOptions)

\* Markup with text runs that hold whitespace, for the options-taking parser
\* with and without preserveWhitespace.
WhitespaceFragments == {
    Fragment("text", <<>>, <<"a"," "," ","b">>),
    Fragment("text", <<>>, <<"\n"," "," ","x">>),
    Fragment("text", <<>>, <<"\r","\n","\t">>),
    Fragment("text", <<>>, <<" ","\r"," ">>),
    Fragment("open", <<"a">>, <<"<","a"," ","k","=","\"","v","\"",">">>),
    Fragment("close", <<"a">>, <<"<","/","a",">">>),
    Comment(<<"c">>) }

WhitespaceOptions == { DefaultOptions, [DefaultOptions EXCEPT !.preserveWhitespace = TRUE] }

InitWhitespace ==
    \E ps \in Markups(WhitespaceFragments, MaxPieces), opt \in WhitespaceOptions :
        InitWith(ps, TRUE, "options", opt)

\* Markup with <template> tags.
TemplateFragments == {
    Fragment("open", TemplateType,
             <<"<","t","e","m","p","l","a","t","e"," ","k","=","\"","v","\"",">">>),
    Fragment("close", TemplateType, <<"<","/","t","e","m","p","l","a","t","e",">">>),
    Fragment("open", <<"a">>, <<"<","a",">">>),
    Fragment("close", <<"a">>, <<"<","/","a",">">>),
    Fragment("text", <<>>, <<"x">>),
    Comment(<<"c">>) }

InitTemplate ==
    \E ps \in Markups(TemplateFragments, MaxPieces), parser \in {"stack", "options"} :
        InitWith(ps, TRUE, parser, DefaultOptions)

\* Trees given to render directly.  A term is a node and the terms of its
\* children, or null.
MaxChildren == 2
MaxProps == 2

Term(node, kids) == [null |-> FALSE, node |-> node, kids |-> kids]
NullTerm == [null |-> TRUE, node |-> NoTag, kids |-> <<>>]

TextNode(value) == [NewObject(TextType) EXCEPT !.props = <<Prop(TextContentName, value)>>]
CommentNode(value) == [NewObject(CommentsType) EXCEPT !.props = <<Prop(TextName, value)>>]
Element(type, props) == [NewObject(type) EXCEPT !.props = props]

\* The heap of a term: its node, then the nodes of its children.
RECURSIVE Grow(_, _, _)
RECURSIVE GrowAll(_, _, _)
Grow(nodes, parent, term) ==
    IF term.null THEN [nodes EXCEPT ![parent].children = Append(@, 0)]
    ELSE LET n == Len(nodes) + 1
         IN GrowAll(Append([nodes EXCEPT ![parent].children = Append(@, n)], term.node),
                    n, term.kids)

GrowAll(nodes, parent, terms) ==
    IF terms = <<>> THEN nodes
    ELSE GrowAll(Grow(nodes, parent, Head(terms)), parent, Tail(terms))

HeapOf(term) == GrowAll(<<term.node>>, 1, term.kids)

SpecialText == <<"<","&",">">>

RenderLeaves == {
    Term(TextNode(SpecialText), <<>>),
    Term(NewObject(TextType), <<>>),
    Term(CommentNode(<<"c">>), <<>>),
    Term(Element(<<"b","r">>, <<>>), <<>>),
    Term(Element(<<"B","R">>, <<>>), <<>>),
    Term(Element(<<"p">>, <<Prop(<<"k">>, <<"v">>)>>), <<>>),
    NullTerm,
    Term(NewObject(<<>>), <<>>),
    Term(NewObject(NullValue), <<>>),
    Term([NewObject(TextType) EXCEPT
            !.props = <<NullProp, Prop(TextContentName, <<"x">>)>>], <<>>) }

RenderInner == {
    Term(Element(<<"p">>, <<>>), <<Term(TextNode(<<"x">>), <<>>)>>),
    Term(Element(<<"b","r">>, <<>>), <<Term(TextNode(<<"x">>), <<>>)>>),
    Term(Element(<<"p">>, <<>>), <<NullTerm>>) }

RenderTops == { Element(<<"p">>, <<>>), Element(<<"h","r">>, <<>>), NewObject(TemplateType) }

PropEntries == {
    Prop(<<"k">>, <<"v">>),
    Prop(<<"q">>, <<"&","\"","<",">","'">>),
    Prop(TextContentName, <<"t">>),
    Prop(<<>>, <<"e">>),
    Prop(<<"j">>, UndefinedValue),
    Prop(<<"n">>, NullValue),
    NullProp }

RenderTrees ==
    { Term(top, kids) : top \in RenderTops,
                        kids \in Markups(RenderLeaves \cup RenderInner, MaxChildren) }
    \cup { Term(Element(<<"a">>, props), <<>>) : props \in Markups(PropEntries, MaxProps) }

RenderOptions ==
    { [pretty |-> pretty, indent |-> <<>>, xmlMode |-> xmlMode, selfClosingTags |-> tags] :
        pretty \in BOOLEAN, xmlMode \in BOOLEAN,
        tags \in { [given |-> FALSE, tags |-> {}], [given |-> TRUE, tags |-> {}],
                   [given |-> TRUE, tags |-> {<<"P">>}] } }

\* render(tree, options) for a tree, and for no tree at all.
InitRenderOf(nodes, tree, opt) ==
    /\ pieces = <<>>
    /\ html = <<>>
    /\ htmlIsString = TRUE
    /\ impl = "none"
    /\ options = [DefaultOptions EXCEPT !.render = opt]
    /\ i = 0
    /\ pc = "returned"
    /\ control = [InitControl EXCEPT !.nodes = nodes]
    /\ error = ""
    /\ finalResult = tree
    /\ out = <<>>

InitRender ==
    \E opt \in RenderOptions :
        \/ \E term \in RenderTrees : InitRenderOf(HeapOf(term), 1, opt)
        \/ InitRenderOf(InitControl.nodes, 0, opt)

\* Markup with entities in text and in attribute values.
EntityFragments == {
    Fragment("text", <<>>, <<"&","a","m","p",";">>),
    Fragment("text", <<>>, <<"a","&","b">>),
    Fragment("open", <<"p">>, <<"<","p",">">>),
    Fragment("close", <<"p">>, <<"<","/","p",">">>),
    Fragment("open", <<"a">>, <<"<","a"," ","k","=","\"","&","l","t",";","\"",">">>),
    Comment(<<"c">>) }

InitEntities ==
    \E ps \in Markups(EntityFragments, MaxPieces), parser \in {"stack", "options"} :
        InitWith(ps, TRUE, parser, DefaultOptions)

\* Markup and options of the options-taking parser with and without diagnostics.
EnvelopeFragments == {
    Fragment("open", <<"a">>, <<"<","a",">">>),
    Fragment("close", <<"a">>, <<"<","/","a",">">>),
    Fragment("open", <<"b">>, <<"<","b"," ","k","=","\"","v","\"",">">>),
    Fragment("close", <<"b">>, <<"<","/","b",">">>),
    Fragment("text", <<>>, <<"x">>),
    Comment(<<"c">>) }

EnvelopeOptions ==
    { [DefaultOptions EXCEPT !.includeErrors = e, !.includeWarnings = w] :
        e \in BOOLEAN, w \in BOOLEAN }

InitEnvelope ==
    \E ps \in Markups(EnvelopeFragments, MaxPieces), opt \in EnvelopeOptions :
        InitWith(ps, TRUE, "options", opt)

\* Markup with a <!DOCTYPE html> declaration.
Doctype == Fragment("doctype", <<"D","O","C","T","Y","P","E">>,
                    <<"<","!","D","O","C","T","Y","P","E"," ","h","t","m","l",">">>)

DoctypeFragments == {
    Doctype,
    Fragment("open", <<"h","t","m","l">>, <<"<","h","t","m","l"," ","k","=","\"","v","\"",">">>),
    Fragment("close", <<"h","t","m","l">>, <<"<","/","h","t","m","l",">">>),
    Fragment("text", <<>>, <<"x">>),
    Comment(<<"c">>) }

InitDoctype ==
    \E ps \in Markups(DoctypeFragments, MaxPieces), parser \in {"stack", "options"} :
        InitWith(ps, TRUE, parser, DefaultOptions)

\* Markup with a backslash, '${...}' and '{{...}}' in its text, for the
\* options-taking parser called without values and with values null.
MarkerFragments == {
    Fragment("marker", <<>>, <<"a","\\","b">>),
    Fragment("marker", <<>>, <<"$","{","x","}">>),
    Fragment("marker", <<>>, <<"{","{","y","}","}">>),
    Fragment("text", <<>>, <<"x">>),
    Fragment("open", <<"a">>, <<"<","a"," ","k","=","\"","v","\"",">">>),
    Fragment("close", <<"a">>, <<"<","/","a",">">>),
    Comment(<<"c">>) }

MarkerOptions == { DefaultOptions, [DefaultOptions EXCEPT !.valuesNull = TRUE] }

InitMarkers ==
    \E ps \in Markups(MarkerFragments, MaxPieces), opt \in MarkerOptions :
        InitWith(ps, TRUE, "options", opt)

----------------------------------------------------------------------------
(* Actions *)

Validate_unchecked ==
    /\ pc = "validate"
    /\ pc' = "loop" /\ error' = error
    /\ UNCHANGED <<pieces, impl, html, htmlIsString, options, i, control, finalResult, out>>

\* if (typeof html !== 'string') throw new TypeError('HTML input must be a string')
Validate ==
    /\ pc = "validate"
    /\ IF htmlIsString
       THEN pc' = "loop" /\ error' = error
       ELSE pc' = "threw" /\ error' = "TypeError: HTML input must be a string"
    /\ UNCHANGED <<pieces, impl, html, htmlIsString, options, i, control, finalResult, out>>

\* The loop runs and actions[action] handles the next character.
Handles(action) == pc = "loop" /\ i < Len(html) /\ Prepared.c.action = action

\* The effect of one iteration of the main loop.
Iterate(c, next) ==
    /\ control' = c
    /\ i' = next
    /\ IF c.threw
       THEN pc' = "threw" /\ error' = "TypeError: Cannot read properties of undefined"
       ELSE pc' = pc /\ error' = error
    /\ UNCHANGED <<pieces, impl, html, htmlIsString, options, finalResult, out>>

text ==
    /\ Handles("text")
    /\ Iterate(Dispatch(Prepared), Prepared.i + 1)

comments ==
    /\ Handles("comments")
    /\ Iterate(Dispatch(Prepared), Prepared.i + 1)

processTag ==
    /\ Handles("processTag")
    /\ Iterate(Dispatch(Prepared), Prepared.i + 1)

closeTag ==
    /\ Handles("closeTag")
    /\ Iterate(Dispatch(Prepared), Prepared.i + 1)

attributeNameStep ==
    /\ Handles("attributeName")
    /\ Iterate(Dispatch(Prepared), Prepared.i + 1)

attributeValueStep ==
    /\ Handles("attributeValue")
    /\ Iterate(Dispatch(Prepared), Prepared.i + 1)

\* After the loop: the remaining text, the warnings, the result.
Finish ==
    /\ pc = "loop"
    /\ i >= Len(html)
    /\ LET c == FinishOf(impl, control, options, html)
       IN /\ control' = c
          /\ finalResult' = FinalResult(c)
    /\ pc' = "returned"
    /\ UNCHANGED <<pieces, impl, html, htmlIsString, options, i, error, out>>

\* A renderer that drops the null children from the tree itself before it
\* renders the rest.
Render_inPlace ==
    /\ pc = "returned"
    /\ pc' = "rendered"
    /\ error' = error
    /\ control' = [control EXCEPT !.nodes =
                      [n \in DOMAIN @ |->
                          [@[n] EXCEPT !.children = SelectSeq(@, LAMBDA k : k # 0)]]]
    /\ out' = render(control'.nodes, finalResult, SettingsOf(options.render))
    /\ UNCHANGED <<pieces, impl, html, htmlIsString, options, i, finalResult>>

\* HTMLRenderer(json), as the round-trip tests call it, and render(tree, options).
Render ==
    /\ pc = "returned"
    /\ IF renderThrows(control.nodes, finalResult)
       THEN /\ pc' = "threw"
            /\ error' = "TypeError: Cannot read properties of null"
            /\ out' = out
       ELSE /\ pc' = "rendered"
            /\ error' = error
            /\ out' = render(control.nodes, finalResult, SettingsOf(options.render))
    /\ UNCHANGED <<pieces, impl, html, htmlIsString, options, i, control, finalResult>>

Next ==
    \/ Validate
    \/ text
    \/ comments
    \/ processTag
    \/ closeTag
    \/ attributeNameStep
    \/ attributeValueStep
    \/ Finish
    \/ Render

Spec == Init /\ [][Next]_vars

SpecIgnore == InitIgnore /\ [][Next]_vars

SpecWarnings == InitWarnings /\ [][Next]_vars

SpecAttributes == InitAttributes /\ [][Next]_vars

SpecComments == InitComments /\ [][Next]_vars

SpecWhitespace == InitWhitespace /\ [][Next]_vars

SpecTemplate == InitTemplate /\ [][Next]_vars

SpecEntities == InitEntities /\ [][Next]_vars

SpecEnvelope == InitEnvelope /\ [][Next]_vars

SpecDoctype == InitDoctype /\ [][Next]_vars

SpecMarkers == InitMarkers /\ [][Next]_vars

\* render(tree, options) alone.
NextRender == Render

SpecRender == InitRender /\ [][NextRender]_vars

----------------------------------------------------------------------------
(* Properties *)

Returned == pc \in {"returned", "rendered"}

TopLevel == control.nodes[Root].children

\* The root result rule: undefined for no top-level node, the node itself for
\* one, the template wrapper for more; the wrapper has two children or more.
RootResultRule ==
    Returned =>
        /\ Len(TopLevel) = 0 => finalResult = 0
        /\ Len(TopLevel) = 1 => finalResult = TopLevel[1] /\ finalResult # Root
        /\ Len(TopLevel) > 1 =>
              finalResult = Root /\ control.nodes[Root].type = TemplateType
        /\ finalResult = Root => Len(TopLevel) >= 2

\* Markup of top-level leaves only: the text x, comments and void elements,
\* with no text next to text.
Flat(ps) ==
    /\ \A k \in 1..Len(ps) : ps[k].kind \in {"comment", "void", "bare"} \/ ps[k].text = <<"x">>
    /\ \A k \in 1..(Len(ps) - 1) : ~(ps[k].kind = "text" /\ ps[k + 1].kind = "text")

\* The type of the node a leaf fragment is parsed to.
LeafType(p) ==
    IF p.kind = "text" THEN TextType ELSE IF p.kind = "comment" THEN CommentsType ELSE p.name

\* C1: once a parser has returned, its result is undefined when no top-level
\* node was produced, the node itself when exactly one was, and otherwise the
\* template wrapper, never with fewer than two children, whose children are the
\* top-level nodes in the order of the source.
C1_RootResult ==
    /\ RootResultRule
    /\ (Returned /\ Flat(pieces)) =>
          /\ Len(TopLevel) = Len(pieces)
          /\ \A k \in 1..Len(pieces) : control.nodes[TopLevel[k]].type = LeafType(pieces[k])

\* The names a sequence of fragments leaves open, when every closing tag
\* closes the innermost open element; Mismatch when one does not.
Mismatch == << <<"<">> >>

RECURSIVE Unclosed(_, _)
Unclosed(ps, k) ==
    IF k = 0 THEN <<>>
    ELSE LET before == Unclosed(ps, k - 1)
             p == ps[k]
         IN IF before = Mismatch THEN Mismatch
            ELSE IF p.kind = "open" THEN Append(before, p.name)
            ELSE IF p.kind = "close"
                 THEN IF before # <<>> /\ before[Len(before)] = p.name
                      THEN SubSeq(before, 1, Len(before) - 1)
                      ELSE Mismatch
            ELSE before

\* Every element is closed by its own closing tag, in order.
Balanced(ps) == Unclosed(ps, Len(ps)) = <<>>

\* Elements, attributes and text only.
ElementsAndText(ps) ==
    \A k \in 1..Len(ps) : ps[k].kind \in {"open", "close", "void", "bare", "selfclose", "text"}

\* Written as the renderer writes: <name attrs>...</name>, and <name attrs />
\* for the void elements only.
RendererForm(ps) ==
    \A k \in 1..Len(ps) : ps[k].kind \in {"open", "close", "void", "text"}

CompletesTag == Handles("closeTag") /\ Prepared.char = ">"

\* The positions of the ancestor stack holding an element of the given name.
OpenAs(type) ==
    { k \in 1..Len(control.stack) : control.nodes[control.stack[k]].type = type }

Innermost(type) == CHOOSE k \in OpenAs(type) : \A j \in OpenAs(type) : j <= k

\* C3: in the stack-based parser, the completion of a closing tag whose name
\* some open element has pops the stack down to and including the innermost
\* such element, leaves everything below it, and makes the new top of the
\* stack, or the root container when the stack is empty, the current element.
C3_ClosingTagPops ==
    [][ (impl = "stack" /\ CompletesTag /\ control.tag.closingTag
            /\ OpenAs(control.tag.type) # {})
        => LET k == Innermost(control.tag.type)
           IN /\ control'.stack = SubSeq(control.stack, 1, k - 1)
              /\ control'.current = IF k > 1 THEN control.stack[k - 1] ELSE Root
              /\ control'.nodes = control.nodes ]_vars

\* <a><b k="v"></a> has been read: </a> closed b together with a.
C3_Witness ==
    /\ impl = "stack"
    /\ pc = "loop"
    /\ i = Len(html)
    /\ Len(pieces) = 3
    /\ pieces[1].kind = "open" /\ pieces[2].kind = "open" /\ pieces[3].kind = "close"
    /\ pieces[3].name = pieces[1].name
    /\ pieces[2].name # pieces[1].name
    /\ Len(control.nodes) = 3
    /\ control.stack = <<>>
    /\ control.current = Root

VoidNames ==
    { <<"a","r","e","a">>, <<"b","a","s","e">>, <<"b","r">>, <<"c","o","l">>,
      <<"e","m","b","e","d">>, <<"h","r">>, <<"i","m","g">>, <<"i","n","p","u","t">>,
      <<"l","i","n","k">>, <<"m","e","t","a">>, <<"s","o","u","r","c","e">>,
      <<"t","r","a","c","k">>, <<"w","b","r">> }

IsVoidName(type) == ToLowerCase(type) \in VoidNames

\* The step pushes the tag under construction, childless, to the children of
\* the current element, and leaves the stack and the current element alone.
CommitsLeaf ==
    LET n == Len(control.nodes) + 1
    IN /\ Len(control'.nodes) = n
       /\ control'.nodes[n].type = control.tag.type
       /\ control'.nodes[n].children = <<>>
       /\ control'.nodes[control.current].children
             = Append(control.nodes[control.current].children, n)
       /\ control'.stack = control.stack
       /\ control'.current = control.current

\* C4: '>' completing a tag with a void name, in any letter case and with or
\* without a trailing '/', commits it as a childless child of the current
\* element and moves neither the stack nor the current element; no node with
\* a void name ever has children.
C4_VoidLeaf ==
    /\ [](\A n \in 1..Len(control.nodes) :
             IsVoidName(control.nodes[n].type) => control.nodes[n].children = <<>>)
    /\ [][ (CompletesTag /\ IsVoidName(control.tag.type)) => CommitsLeaf ]_vars

\* <a><BR>x has been parsed: BR and the text after it are both children of a.
C4_Witness ==
    /\ pc = "returned"
    /\ \E m \in 2..Len(control.nodes) :
          /\ Len(control.nodes[m].children) = 2
          /\ control.nodes[control.nodes[m].children[1]].type = <<"B","R">>
          /\ control.nodes[control.nodes[m].children[1]].children = <<>>
          /\ control.nodes[control.nodes[m].children[2]].type = TextType

\* C5: in both parsers, '>' completing a tag that is not void and was written
\* with a '/' before the '>' commits it as a childless child of the current
\* element and does not make it the insertion point.
C5_SelfClosedLeaf ==
    [][ (CompletesTag /\ control.tag.closing /\ ~control.tag.closingTag
            /\ ~IsVoidName(control.tag.type))
        => CommitsLeaf ]_vars

\* C6: on a string, neither parser throws.
C6_NeverThrows == htmlIsString => pc # "threw"

\* C7: after the validation of an input that is not a string, the parser has
\* thrown the TypeError 'HTML input must be a string', has read no character,
\* built nothing and returned nothing; that error is thrown for nothing else.
C7_NotAString ==
    /\ (~htmlIsString /\ pc # "validate") =>
          /\ pc = "threw"
          /\ error = "TypeError: HTML input must be a string"
          /\ i = 0
          /\ control = InitControl
          /\ finalResult = 0
    /\ error = "TypeError: HTML input must be a string" => ~htmlIsString

C7_Witness ==
    /\ ~htmlIsString
    /\ pc = "threw"
    /\ error = "TypeError: HTML input must be a string"

\* The nodes of the tree under a node; none under undefined.
RECURSIVE TreeOf(_, _)
TreeOf(nodes, n) ==
    IF n = 0 THEN {}
    ELSE {n} \cup UNION { TreeOf(nodes, nodes[n].children[k]) : k \in 1..Len(nodes[n].children) }

\* C10: no node of the returned tree has a parent field.
C10_NoParent ==
    Returned => \A n \in TreeOf(control.nodes, finalResult) : control.nodes[n].parent = 0

Ignoring == impl = "ignore" /\ options.ignore # {}

\* The name is on the ignore list, in some letter case.
Named(type) == \E name \in options.ignore : ToLowerCase(name) = ToLowerCase(type)

\* The nodes that are, or are inside, an element of an ignored name.
InIgnored ==
    UNION { TreeOf(control.nodes, n) :
              n \in { m \in 1..Len(control.nodes) : Named(control.nodes[m].type) } }

\* C8: with an ignore list, the returned tree holds no element whose name the
\* list matches in any letter case and no node that was parsed inside such an
\* element, and the rendered result holds no tag of such a name.
C8_IgnoredSubtreeDropped ==
    /\ (Returned /\ Ignoring) => TreeOf(control.nodes, finalResult) \cap InIgnored = {}
    /\ (pc = "rendered" /\ Ignoring) =>
          /\ ~Contains(ToLowerCase(out), <<"<", "s">>)
          /\ ~Contains(ToLowerCase(out), <<"<", "/", "s">>)

\* <a><S k="v">x</S>x has been parsed with ignore = ['s']: <a>x</a> is left.
C8_Witness ==
    /\ pc = "rendered"
    /\ Ignoring
    /\ Len(pieces) = 3
    /\ pieces[1].name = <<"a">> /\ pieces[1].kind = "open"
    /\ pieces[2].name = <<"S">> /\ pieces[2].kind = "element"
    /\ pieces[3].kind = "text"
    /\ Len(control.nodes) = 5
    /\ out = <<"<","a",">","x","<","/","a",">">>

\* A tree as a value, without the elements the options ignore.
RECURSIVE TreeValue(_, _, _)
RECURSIVE TreeValues(_, _, _)
TreeValue(nodes, n, opt) ==
    [ type |-> nodes[n].type, props |-> nodes[n].props,
      children |-> TreeValues(nodes, nodes[n].children, opt) ]

TreeValues(nodes, kids, opt) ==
    IF kids = <<>> THEN <<>>
    ELSE (IF ignore_matches(opt, nodes[Head(kids)].type) THEN <<>>
          ELSE <<TreeValue(nodes, Head(kids), opt)>>)
         \o TreeValues(nodes, Tail(kids), opt)

\* The top-level nodes a parse produced, as values.
Forest(c, opt) == TreeValues(c.nodes, c.nodes[c.root].children, opt)

\* The fragments outside every <t>...</t> the options ignore.
RECURSIVE Outside(_, _, _, _)
Outside(ps, k, depth, opt) ==
    IF k > Len(ps) THEN <<>>
    ELSE LET p == ps[k]
             named == p.kind \in {"open", "close", "element"} /\ ignore_matches(opt, p.name)
         IN IF named /\ p.kind = "element" THEN Outside(ps, k + 1, depth, opt)
            ELSE IF named /\ p.kind = "open" THEN Outside(ps, k + 1, depth + 1, opt)
            ELSE IF named /\ depth > 0 THEN Outside(ps, k + 1, depth - 1, opt)
            ELSE IF depth > 0 THEN Outside(ps, k + 1, depth, opt)
            ELSE <<p>> \o Outside(ps, k + 1, depth, opt)

Deleted == TextOf(Outside(pieces, 1, 0, options))

\* C9 as stated: the tree parsed with an ignore list equals the tree parsed
\* from the markup with every ignored <t>...</t> deleted.
C9_EqualsDeletedMarkup ==
    (pc = "returned" /\ Ignoring /\ Balanced(pieces))
        => Forest(control, DefaultOptions) = Forest(Parse("ignore", Deleted, DefaultOptions), DefaultOptions)

\* C9, amended: the tree parsed with an ignore list equals the tree parsed
\* without it from which every ignored element is removed with its subtree;
\* with an empty ignore list every node parsed is in the tree, which is the
\* tree parsed without the option.
C9_EqualsPrunedTree ==
    /\ (pc = "returned" /\ Ignoring) =>
          Forest(control, DefaultOptions) = Forest(Parse("stack", html, DefaultOptions), options)
    /\ (Returned /\ impl = "ignore" /\ options.ignore = {}) =>
          /\ TreeOf(control.nodes, Root) = 1..Len(control.nodes)
          /\ Forest(control, DefaultOptions) = Forest(Parse("stack", html, DefaultOptions), DefaultOptions)

\* x<S k="v">x</S>x has been parsed with ignore = ['s']: two Text nodes, rendered xx.
C9_Witness ==
    /\ pc = "rendered"
    /\ Ignoring
    /\ Len(pieces) = 3
    /\ pieces[1].kind = "text" /\ pieces[3].kind = "text"
    /\ pieces[2].kind = "element" /\ pieces[2].name = <<"S">>
    /\ Len(TopLevel) = 2
    /\ out = <<"x", "x">>

\* The elements open in the options-taking parser: the current element and
\* its ancestors by the parent fields, innermost first, without the root.
RECURSIVE OpenChain(_, _)
OpenChain(nodes, n) ==
    IF n = 0 \/ n = Root THEN <<>> ELSE <<n>> \o OpenChain(nodes, nodes[n].parent)

OpenNames == { control.nodes[OpenChain(control.nodes, control.current)[k]].type :
                 k \in 1..Len(OpenChain(control.nodes, control.current)) }

\* The step records exactly one warning of an unmatched closing tag, at the
\* offset of the character handled, and changes neither the tree nor current.
WarnsUnmatched ==
    /\ control'.warnings = Append(control.warnings,
          [ type |-> "warning", message |-> "Closing tag has no matching opening tag",
            tag |-> control.tag.type, position |-> i ])
    /\ control'.current = control.current
    /\ control'.nodes = control.nodes

\* C11: in the options-taking parser, '>' completing a closing tag whose name
\* no open element has records one warning 'Closing tag "name" has no matching
\* opening tag' at the current offset and leaves current, the open elements
\* and the tree as they are.
C11_UnmatchedClosingTag ==
    [][ (impl = "options" /\ CompletesTag /\ control.tag.closingTag
            /\ control.tag.type \notin OpenNames)
        => WarnsUnmatched ]_vars

\* The same for closing tags that are named neither as a void element nor template.
UnmatchedOrdinaryClosingTag ==
    [][ (impl = "options" /\ CompletesTag /\ control.tag.closingTag
            /\ control.tag.type \notin OpenNames
            /\ ~IsVoidName(control.tag.type) /\ control.tag.type # TemplateType)
        => WarnsUnmatched ]_vars

\* The elements the fragments 1..k leave open, and the names of those that
\* were closed by the closing tag of an element outside them.
RECURSIVE Nesting(_, _)
Nesting(ps, k) ==
    IF k = 0 THEN [open |-> <<>>, lost |-> {}]
    ELSE LET before == Nesting(ps, k - 1)
             p == ps[k]
             same == { j \in 1..Len(before.open) : before.open[j] = p.name }
         IN IF p.kind = "open"
            THEN [open |-> Append(before.open, p.name), lost |-> before.lost]
            ELSE IF p.kind = "close" /\ same # {}
            THEN LET j == CHOOSE m \in same : \A n \in same : n <= m
                 IN [ open |-> SubSeq(before.open, 1, j - 1),
                      lost |-> before.lost \cup
                                 { before.open[m] : m \in (j + 1)..Len(before.open) } ]
            ELSE before

NeverClosed == Nesting(pieces, Len(pieces)).lost

\* C12: when warnings are requested and a closing tag has closed an outer
\* element over an inner element that its own closing tag never closed, the
\* parser returns an envelope whose warnings name that inner element.
C12_InnerElementWarned ==
    (Returned /\ impl = "options" /\ options.includeWarnings /\ NeverClosed # {})
        => LET r == ReturnValue(control, options)
           IN /\ r.envelope
              /\ \A name \in NeverClosed :
                    \E k \in 1..Len(r.warnings.v) : r.warnings.v[k].tag = name

RECURSIVE Reverse(_)
Reverse(seq) == IF seq = <<>> THEN <<>> ELSE Reverse(Tail(seq)) \o <<Head(seq)>>

\* The names of the elements the markup leaves open, innermost first.
StillOpen == Reverse(Nesting(pieces, Len(pieces)).open)

IsUnclosedWarning(w) == w.message = "Unclosed tag"

UnclosedWarnings == SelectSeq(control.warnings, IsUnclosedWarning)

\* One 'Unclosed tag' warning per element left open, innermost first, at the
\* length of the input; each such element is in the tree.
UnclosedWarned ==
    /\ UnclosedWarnings =
          [ k \in 1..Len(StillOpen) |->
              [ type |-> "warning", message |-> "Unclosed tag",
                tag |-> StillOpen[k], position |-> Len(html) ] ]
    /\ LET chain == OpenChain(control.nodes, control.current)
       IN /\ Len(chain) = Len(StillOpen)
          /\ \A k \in 1..Len(chain) :
                /\ control.nodes[chain[k]].type = StillOpen[k]
                /\ chain[k] \in TreeOf(control.nodes, Root)

\* C13: the options-taking parser with default options has recorded, once the
\* input has ended, exactly one 'Unclosed tag' warning for each element still
\* open, from the innermost to the outermost, each at the input length, and
\* the tree holds those elements.
C13_UnclosedSweep ==
    (Returned /\ impl = "options" /\ options = DefaultOptions) => UnclosedWarned

\* The same for markup without template tags.
UnclosedSweepWithoutTemplate ==
    (Returned /\ impl = "options" /\ options = DefaultOptions
        /\ \A k \in 1..Len(pieces) : pieces[k].name # TemplateType)
        => UnclosedWarned

\* The attributes the tag of the markup is written with.
Written == SubSeq(pieces, 2, Len(pieces) - 1)

IsElement(n) == control.nodes[n].type \notin {TemplateType, TextType, CommentsType}

\* C14: the props of a parsed element are its attributes as {name, value}
\* pairs in the order they are written in the tag, one entry for each
\* occurrence of a name written more than once.
C14_PropsInWrittenOrder ==
    (Returned /\ pieces # <<>> /\ pieces[1] = TagStart) =>
        \A n \in TreeOf(control.nodes, Root) :
            IsElement(n) =>
                control.nodes[n].props =
                    [ k \in 1..Len(Written) |-> Prop(Written[k].name, Written[k].value) ]

\* <a k="v" j k='w'> has been parsed: the props are k, j, k.
C14_Witness ==
    /\ pc = "returned"
    /\ Len(pieces) = 5
    /\ pieces[1] = TagStart
    /\ \E n \in TreeOf(control.nodes, Root) :
          /\ IsElement(n)
          /\ control.nodes[n].props =
                <<Prop(<<"k">>, <<"v">>), Prop(<<"j">>, <<"j">>), Prop(<<"k">>, <<"w">>)>>

\* A character other than the open quote is read inside a quoted value.
ReadsInsideQuote ==
    /\ pc = "loop"
    /\ i < Len(html)
    /\ control.hasTag
    /\ InsideQuote(control.tag)
    /\ At(html, i) # control.tag.insideQuote

\* C15: in the stack-based parser, a character read inside a quoted attribute
\* value, other than the quote that opened it, is appended to the value as it
\* is, and the step changes nothing else: the state stays attributeValue, the
\* quote stays open, the tag stays in progress and the tree is untouched,
\* whether the character is whitespace, '<', '>', '/' or the other quote.
C15_QuotedValueVerbatim ==
    [][ (impl = "stack" /\ ReadsInsideQuote)
        => /\ control.action = "attributeValue"
           /\ control' = [control EXCEPT
                 !.tag.attributeValue = [def |-> TRUE, v |-> Append(@.v, At(html, i))]]
           /\ i' = i + 1
           /\ pc' = "loop" ]_vars

\* q="a </>' has been read so far, and the quote is still open.
C15_Witness ==
    /\ impl = "stack"
    /\ pc = "loop"
    /\ control.hasTag
    /\ control.action = "attributeValue"
    /\ control.tag.insideQuote = "\""
    /\ control.tag.attributeValue.v = <<"a", " ", "<", "/", ">", "'">>

\* The attribute is written as its name alone.
BooleanStyle(a) == a.text = <<" ">> \o a.name

\* The attribute is written name="".
EmptyQuoted(a) == a.text = <<" ">> \o a.name \o <<"=", "\"", "\"">>

\* C16: in the props of the parsed element, an attribute written as a name
\* without '=' has its own name as value, whether another attribute or the end
\* of the tag follows it, and an attribute written name="" has the empty
\* string as value.
C16_BooleanAndEmptyValues ==
    (Returned /\ pieces # <<>> /\ pieces[1] = TagStart) =>
        \A n \in TreeOf(control.nodes, Root) :
            IsElement(n) =>
                /\ Len(control.nodes[n].props) = Len(Written)
                /\ \A k \in 1..Len(Written) :
                      /\ control.nodes[n].props[k].name = Written[k].name
                      /\ BooleanStyle(Written[k]) =>
                            control.nodes[n].props[k].value = Written[k].name
                      /\ EmptyQuoted(Written[k]) => control.nodes[n].props[k].value = <<>>

\* <a j k="" j/> has been parsed by the stack-based parser.
C16_Witness ==
    /\ pc = "returned"
    /\ impl = "stack"
    /\ Len(pieces) = 5
    /\ pieces[1] = TagStart
    /\ BooleanStyle(pieces[2]) /\ EmptyQuoted(pieces[3]) /\ BooleanStyle(pieces[4])
    /\ pieces[5].text = <<"/", ">">>
    /\ \E n \in TreeOf(control.nodes, Root) :
          /\ IsElement(n)
          /\ control.nodes[n].props =
                <<Prop(<<"j">>, <<"j">>), Prop(<<"k">>, <<>>), Prop(<<"j">>, <<"j">>)>>

\* The fragments of a kind, in their order.
RECURSIVE OfKind(_, _)
OfKind(ps, kind) ==
    IF ps = <<>> THEN <<>>
    ELSE (IF Head(ps).kind = kind THEN <<Head(ps)>> ELSE <<>>) \o OfKind(Tail(ps), kind)

\* The nodes of a type, in the order of their creation.
NodesOfType(type) ==
    LET RECURSIVE From(_)
        From(n) == IF n > Len(control.nodes) THEN <<>>
                   ELSE (IF control.nodes[n].type = type /\ n \in TreeOf(control.nodes, Root)
                         THEN <<n>> ELSE <<>>) \o From(n + 1)
    IN From(1)

\* The text the Text nodes hold, one after the other.
AllText ==
    LET texts == NodesOfType(TextType)
    IN Flatten([k \in 1..Len(texts) |-> control.nodes[texts[k]].props[1].value])

\* Each comment of the markup is one Comment node holding its X, and the text
\* of the markup is the text of the Text nodes.
CommentsAsWritten ==
    LET written == OfKind(pieces, "comment")
        parsed == NodesOfType(CommentsType)
    IN /\ Len(parsed) = Len(written)
       /\ \A k \in 1..Len(written) :
             control.nodes[parsed[k]].props = <<Prop(TextName, written[k].name)>>
       /\ AllText = TextOf(OfKind(pieces, "text"))

\* C17: each <!--X--> of the markup is parsed to exactly one Comment node with
\* the single prop 'text' holding X character for character, and nothing of a
\* comment or its terminator is in a Text node.
C17_CommentVerbatim == Returned => CommentsAsWritten

\* The same for X that does not start with '>': '<!--' and the '>' are
\* together a string that ends with '-->'.
PlainCommentVerbatim ==
    (Returned /\ \A k \in 1..Len(pieces) : pieces[k].name # <<">">>)
        => CommentsAsWritten

\* Text and comments, where no text follows a text.
Leaves(ps) ==
    /\ \A k \in 1..Len(ps) : ps[k].kind \in {"text", "comment"}
    /\ \A k \in 1..(Len(ps) - 1) : ~(ps[k].kind = "text" /\ ps[k + 1].kind = "text")

\* What a text or a comment is written to hold.
LeafValue(p) == IF p.kind = "text" THEN p.text ELSE p.name

\* The children of a node are the leaves, one node each, in their order.
ChildrenAre(n, ps) ==
    LET children == control.nodes[n].children
    IN /\ Len(children) = Len(ps)
       /\ \A k \in 1..Len(ps) :
             /\ control.nodes[children[k]].type = LeafType(ps[k])
             /\ Len(control.nodes[children[k]].props) = 1
             /\ control.nodes[children[k]].props[1].value = LeafValue(ps[k])

\* The markup is text and comments, at the top level or in an element <a k="v">.
InElement == pieces # <<>> /\ pieces[1].kind = "open" /\ Leaves(Tail(pieces))

\* No comment of the markup starts with '>' (see PlainCommentVerbatim).
PlainComments == \A k \in 1..Len(pieces) : pieces[k].name # <<">">>

ChildrenAsWritten ==
    /\ Leaves(pieces) => ChildrenAre(Root, pieces)
    /\ InElement =>
          /\ Len(TopLevel) = 1
          /\ ChildrenAre(TopLevel[1], Tail(pieces))

\* C18: the children of the root and of an element are the text runs and the
\* comments of the markup in the order they are written in, a text before a
\* comment and a text after it being two Text nodes.
C18_ChildrenInSourceOrder == (Returned /\ PlainComments) => ChildrenAsWritten

\* The same for markup where no text is written directly before a comment.
NoTextBeforeComment ==
    \A k \in 1..(Len(pieces) - 1) :
        ~(pieces[k].kind = "text" /\ pieces[k + 1].kind = "comment")

ChildrenInOrderAfterCommit ==
    (Returned /\ PlainComments /\ NoTextBeforeComment) => ChildrenAsWritten


\* The text runs of the markup: the text between two tags or comments.
RECURSIVE RunsFrom(_, _)
RunsFrom(ps, run) ==
    IF ps = <<>> THEN (IF run = <<>> THEN <<>> ELSE <<run>>)
    ELSE IF Head(ps).kind = "text" THEN RunsFrom(Tail(ps), run \o Head(ps).text)
    ELSE (IF run = <<>> THEN <<>> ELSE <<run>>) \o RunsFrom(Tail(ps), <<>>)

Runs == RunsFrom(pieces, <<>>)

\* A comment with text before it and text after it, no tag between them.
Interrupted ==
    \E x, y, z \in 1..Len(pieces) :
        /\ x < y /\ y < z
        /\ pieces[x].kind = "text" /\ pieces[y].kind = "comment" /\ pieces[z].kind = "text"
        /\ \A m \in x..z : pieces[m].kind \in {"text", "comment"}

\* A text without its newlines, each with the carriage return before it and the
\* whitespace after it.
RECURSIVE Collapsed(_)
Collapsed(run) ==
    LET newlines == { k \in 1..Len(run) : run[k] = "\n" }
    IN IF newlines = {} THEN run
       ELSE LET k == CHOOSE n \in newlines : \A m \in newlines : n <= m
                first == IF k > 1 /\ run[k - 1] = "\r" THEN k - 1 ELSE k
                rest == { n \in (k + 1)..Len(run) : ~IsSpace(run[n]) }
                next == IF rest = {} THEN Len(run) + 1
                        ELSE CHOOSE n \in rest : \A m \in rest : n <= m
            IN SubSeq(run, 1, first - 1) \o Collapsed(SubSeq(run, next, Len(run)))

NotEmpty(run) == run # <<>>

StoredRuns ==
    SelectSeq([k \in 1..Len(Runs) |->
                  IF options.preserveWhitespace THEN Runs[k] ELSE Collapsed(Runs[k])],
              NotEmpty)

\* What the Text nodes hold, in the order of their creation.
TextValues ==
    LET texts == NodesOfType(TextType)
    IN [k \in 1..Len(texts) |-> control.nodes[texts[k]].props[1].value]

TemplateIsWrapper ==
    \A n \in TreeOf(control.nodes, finalResult) :
        control.nodes[n].type = TemplateType =>
            /\ n = Root /\ finalResult = Root
            /\ Len(TopLevel) >= 2
            /\ control.nodes[n].props = <<>>

\* C20: in the tree a parser returns a node of type 'template' is only the
\* wrapper of two or more top-level nodes, never below another node and never
\* with props, markup with a <template> tag included.
C20_TemplateOnlyWrapper == Returned => TemplateIsWrapper

\* The same for markup without a <template> tag.
TemplateOnlyWrapperWithoutTag ==
    (Returned /\ \A k \in 1..Len(pieces) : pieces[k].name # TemplateType) => TemplateIsWrapper


\* render has returned a string.
Rendered == pc = "rendered"

\* The nodes render reaches that it renders as elements.
RenderedElements ==
    { n \in TreeOf(control.nodes, finalResult) :
        control.nodes[n].type \notin
            {TemplateType, TextType, CommentsType, <<>>, UndefinedValue, NullValue} }

StartsWith(s, prefix) == Len(s) >= Len(prefix) /\ SubSeq(s, 1, Len(prefix)) = prefix

\* The effective self-closing set: the names of the selfClosingTags option when
\* it is given, the 13 void names otherwise, in lower case.
EffectiveVoidNames ==
    IF options.render.selfClosingTags.given
    THEN { ToLowerCase(tag) : tag \in options.render.selfClosingTags.tags }
    ELSE VoidNames

ShouldSelfClose(n) ==
    /\ control.nodes[n].children = <<>>
    /\ \/ options.render.xmlMode
       \/ ToLowerCase(control.nodes[n].type) \in EffectiveVoidNames

\* The markup of the element alone, as render emits it at depth 0.
MarkupOf(n) == renderNode(control.nodes, n, 0, SettingsOf(options.render))

OpenTagOf(n) == <<"<">> \o control.nodes[n].type \o renderAttributes(control.nodes[n])

\* C21: render emits an element as '<tag attrs />' exactly when it has no
\* children and xmlMode is set or its lower-cased name is in the effective
\* self-closing set; otherwise as '<tag attrs>' ... '</tag>', a void-named
\* element with children included.
C21_SelfClosingForm ==
    Rendered =>
        /\ \A n \in RenderedElements :
              IF ShouldSelfClose(n)
              THEN MarkupOf(n) = OpenTagOf(n) \o <<" ","/",">">>
              ELSE /\ StartsWith(MarkupOf(n), OpenTagOf(n) \o <<">">>)
                   /\ EndsWith(MarkupOf(n), <<"<","/">> \o control.nodes[n].type \o <<">">>)
        /\ finalResult \in RenderedElements => out = MarkupOf(finalResult)

\* C21 witness: with selfClosingTags given as the empty list a childless hr
\* is rendered with a closing tag.
C21_Witness ==
    /\ Rendered /\ finalResult = 1
    /\ options.render.selfClosingTags = [given |-> TRUE, tags |-> {}]
    /\ ~options.render.xmlMode
    /\ control.nodes[1].type = <<"h","r">> /\ control.nodes[1].children = <<>>
    /\ out = <<"<","h","r",">","<","/","h","r",">">>


\* The text nodes render reaches.
RenderedTexts ==
    { n \in TreeOf(control.nodes, finalResult) : control.nodes[n].type = TextType }

\* Each character for itself: '&', '<' and '>' as their entities, any other
\* character unchanged.
EscapedChar(ch) ==
    IF ch = "&" THEN <<"&","a","m","p",";">>
    ELSE IF ch = "<" THEN <<"&","l","t",";">>
    ELSE IF ch = ">" THEN <<"&","g","t",";">>
    ELSE <<ch>>

EscapedText(value) == Flatten([k \in 1..Len(value) |-> EscapedChar(value[k])])

\* C22: a Text node is rendered as its textContent with every '&', '<' and
\* '>' replaced by '&amp;', '&lt;' and '&gt;', each character once: no raw
\* '<' or '>' is emitted and the '&' of '&lt;' and '&gt;' is not escaped again.
C22_TextEscaped ==
    Rendered =>
        \A n \in RenderedTexts :
            /\ MarkupOf(n) = EscapedText(getPropValue(control.nodes[n], TextContentName))
            /\ \A k \in 1..Len(MarkupOf(n)) : MarkupOf(n)[k] \notin {"<", ">"}

\* C22 witness: the text '<&>' in an element p is rendered as '&lt;&amp;&gt;'.
C22_Witness ==
    /\ Rendered /\ finalResult = 1
    /\ Len(control.nodes) = 2
    /\ control.nodes[2] = TextNode(SpecialText)
    /\ out = <<"<","p",">", "&","l","t",";", "&","a","m","p",";", "&","g","t",";", "<","/","p",">">>

\* Each character of an attribute value for itself.
EscapedAttributeChar(ch) ==
    IF ch = "&" THEN <<"&","a","m","p",";">>
    ELSE IF ch = "\"" THEN <<"&","q","u","o","t",";">>
    ELSE IF ch = "<" THEN <<"&","l","t",";">>
    ELSE IF ch = ">" THEN <<"&","g","t",";">>
    ELSE IF ch = "'" THEN <<"&","#","3","9",";">>
    ELSE <<ch>>

EscapedAttribute(value) == Flatten([k \in 1..Len(value) |-> EscapedAttributeChar(value[k])])

\* The value an entry of props is emitted with: its name for undefined, '' for null.
EmittedValue(p) ==
    IF p.value = UndefinedValue THEN p.name
    ELSE IF p.value = NullValue THEN <<>>
    ELSE p.value

CountOf(s, ch) == Cardinality({ k \in 1..Len(s) : s[k] = ch })

\* C23: every attribute is emitted as name="value", the value with the five
\* characters & " < > ' replaced by their entities, each character once, so
\* that the only double quotes emitted are the delimiters and no '<' or '>' is.
C23_AttributeEscaped ==
    Rendered =>
        \A n \in RenderedElements :
            LET emitted == KeepAttributes(control.nodes[n].props)
                attrs == renderAttributes(control.nodes[n])
            IN /\ \A k \in 1..Len(emitted) :
                     Contains(attrs, <<" ">> \o emitted[k].name \o <<"=","\"">>
                                     \o EscapedAttribute(EmittedValue(emitted[k])) \o <<"\"">>)
               /\ CountOf(attrs, "\"") = 2 * Len(emitted)
               /\ CountOf(attrs, "<") = 0 /\ CountOf(attrs, ">") = 0
               /\ StartsWith(MarkupOf(n), <<"<">> \o control.nodes[n].type \o attrs)

\* C23 witness: the value &"<>' is emitted as &amp;&quot;&lt;&gt;&#39;.
C23_Witness ==
    /\ Rendered /\ finalResult = 1
    /\ control.nodes[1].props = <<Prop(<<"q">>, <<"&","\"","<",">","'">>)>>
    /\ out = <<"<","a"," ","q","=","\"">>
             \o <<"&","a","m","p",";","&","q","u","o","t",";","&","l","t",";">>
             \o <<"&","g","t",";","&","#","3","9",";">>
             \o <<"\"",">","<","/","a",">">>

\* An entry of props that is not emitted: null, without a non-empty string
\* name, or named textContent.
Omitted(p) ==
    \/ p = NullProp
    \/ p.name \in {<<>>, UndefinedValue, NullValue}
    \/ p.name = <<"t","e","x","t","C","o","n","t","e","n","t">>

\* The entries of props as attributes, in their order.
AttributesInOrder(props) ==
    Flatten([k \in 1..Len(props) |->
                IF Omitted(props[k]) THEN <<>>
                ELSE <<" ">> \o props[k].name \o <<"=","\"">>
                     \o EscapedAttribute(EmittedValue(props[k])) \o <<"\"">>])

\* C24: the attributes of an element are emitted in the order of its props,
\* one for each entry, an entry named more than once as often as it occurs;
\* entries named textContent and entries without a non-empty string name are
\* left out, and an entry with an undefined value has its name as its value.
C24_AttributesInPropsOrder ==
    Rendered =>
        \A n \in RenderedElements :
            /\ renderAttributes(control.nodes[n]) = AttributesInOrder(control.nodes[n].props)
            /\ n = finalResult /\ control.nodes[n].children = <<>> /\ ~ShouldSelfClose(n) =>
                  out = <<"<">> \o control.nodes[n].type
                        \o AttributesInOrder(control.nodes[n].props)
                        \o <<">","<","/">> \o control.nodes[n].type \o <<">">>

\* C24 witness: props [textContent, j without a value] are emitted as j="j".
C24_Witness ==
    /\ Rendered /\ finalResult = 1
    /\ control.nodes[1].props = <<Prop(TextContentName, <<"t">>), Prop(<<"j">>, UndefinedValue)>>
    /\ out = <<"<","a"," ","j","=","\"","j","\"",">","<","/","a",">">>

\* The props [k, k] are emitted as two attributes.
DuplicatesEmitted ==
    /\ Rendered /\ finalResult = 1
    /\ control.nodes[1].props = <<Prop(<<"k">>, <<"v">>), Prop(<<"k">>, <<"v">>)>>
    /\ out = <<"<","a"," ","k","=","\"","v","\""," ","k","=","\"","v","\"",">","<","/","a",">">>

\* C25: render never throws: whatever the tree, a step of render ends with a
\* string returned, null nodes, nodes without a string type and null entries
\* of children and props contributing nothing.
C25_RenderNeverThrows == [][pc = "returned" => pc' = "rendered"]_vars

\* A text or comment node with a null entry in its props.
HasNullProp ==
    \E n \in TreeOf(control.nodes, finalResult) :
        /\ control.nodes[n].type \in {TextType, CommentsType}
        /\ \E k \in 1..Len(control.nodes[n].props) : control.nodes[n].props[k] = NullProp

\* render throws for no other tree.
RenderThrowsOnNullPropOnly == [][(pc = "returned" /\ ~HasNullProp) => pc' = "rendered"]_vars

\* A string without its whitespace.
RECURSIVE StripWhitespace(_)
StripWhitespace(s) ==
    IF s = <<>> THEN <<>>
    ELSE (IF IsSpace(Head(s)) THEN <<>> ELSE <<Head(s)>>) \o StripWhitespace(Tail(s))

PrettySettings == [SettingsOf(options.render) EXCEPT !.pretty = TRUE]
CompactSettings == [SettingsOf(options.render) EXCEPT !.pretty = FALSE]

PrettyMarkup(n) == renderNode(control.nodes, n, 0, PrettySettings)

\* Some child of the element has a rendering that is not empty.
HasRenderedChild(n) ==
    \E k \in 1..Len(control.nodes[n].children) :
        renderNode(control.nodes, control.nodes[n].children[k], 1, PrettySettings) # <<>>

\* C26: the pretty and the compact rendering of a tree are equal once the
\* whitespace is removed from both, and the pretty rendering of an element
\* holds a newline only when the element has a child whose rendering is not
\* empty.
C26_PrettyAddsNoContent ==
    Rendered =>
        LET pretty == render(control.nodes, finalResult, PrettySettings)
            compact == render(control.nodes, finalResult, CompactSettings)
        IN /\ out = IF options.render.pretty THEN pretty ELSE compact
           /\ StripWhitespace(pretty) = StripWhitespace(compact)
           /\ CountOf(compact, "\n") = 0
           /\ \A n \in RenderedElements :
                 CountOf(PrettyMarkup(n), "\n") > 0 => HasRenderedChild(n)

\* C26 witness: p with the child p with the text x, rendered pretty, is
\* written on five lines.
C26_Witness ==
    /\ Rendered /\ finalResult = 1 /\ options.render.pretty
    /\ Len(control.nodes) = 3
    /\ control.nodes[3] = TextNode(<<"x">>)
    /\ out = <<"<","p",">","\n"," "," ","<","p",">","\n"," "," "," "," ","x","\n",
               " "," ","<","/","p",">","\n","<","/","p",">">>

\* How often sub occurs in s.
Occurrences(s, sub) ==
    Cardinality({ k \in 1..(Len(s) - Len(sub) + 1) : SubSeq(s, k, k + Len(sub) - 1) = sub })

\* The values of the props of the elements, in the order of their creation.
AttributeValues ==
    LET RECURSIVE From(_)
        From(n) ==
            IF n > Len(control.nodes) THEN <<>>
            ELSE (IF n # Root /\ IsElement(n)
                  THEN Flatten([k \in 1..Len(control.nodes[n].props) |->
                                   control.nodes[n].props[k].value])
                  ELSE <<>>) \o From(n + 1)
    IN From(1)

Returns == ReturnValue(control, options)

WithoutDiagnostics ==
    Parse("options", html, [options EXCEPT !.includeErrors = FALSE, !.includeWarnings = FALSE])

\* C28: the options-taking parser returns the envelope {result, errors,
\* warnings} exactly when includeErrors or includeWarnings is set, errors
\* defined only with includeErrors and warnings only with includeWarnings, and
\* the bare result otherwise; the result is the tree of the same call without
\* diagnostics.
C28_Envelope ==
    (Returned /\ impl = "options") =>
        /\ Returns.envelope <=> (options.includeErrors \/ options.includeWarnings)
        /\ Returns.errors.def <=> options.includeErrors
        /\ Returns.warnings.def <=> options.includeWarnings
        /\ options.includeErrors => Returns.errors.v = control.errors
        /\ options.includeWarnings => Returns.warnings.v = control.warnings
        /\ Returns.result = finalResult
        /\ Returns.result = FinalResult(WithoutDiagnostics)
        /\ control.nodes = WithoutDiagnostics.nodes

\* C28 witness: with includeWarnings alone, </a> gives an envelope with one
\* warning and no errors field.
C28_Witness ==
    /\ Returned /\ impl = "options"
    /\ options.includeWarnings /\ ~options.includeErrors
    /\ Returns.envelope
    /\ Returns.warnings.def /\ Len(Returns.warnings.v) = 1
    /\ ~Returns.errors.def

\* C29: a <!DOCTYPE html> declaration at the start of the markup is parsed to
\* a Text node without children, and an <html> element that follows it is the
\* next top-level node, not a child of the declaration.
C29_DoctypeIsText ==
    (Returned /\ pieces # <<>> /\ pieces[1] = Doctype) =>
        /\ Len(TopLevel) >= 1
        /\ control.nodes[TopLevel[1]].type = TextType
        /\ control.nodes[TopLevel[1]].children = <<>>
        /\ (Len(pieces) >= 2 /\ pieces[2].kind = "open") =>
              /\ Len(TopLevel) >= 2
              /\ control.nodes[TopLevel[2]].type = pieces[2].name

\* What the parsers make of the declaration: an element without a name, with
\* the props DOCTYPE and html, that holds all that follows.
DoctypeIsNamelessElement ==
    (Returned /\ pieces # <<>> /\ pieces[1] = Doctype) =>
        /\ Len(TopLevel) = 1
        /\ control.nodes[TopLevel[1]].type = <<>>
        /\ control.nodes[TopLevel[1]].props =
              << Prop(<<"D","O","C","T","Y","P","E">>, <<"D","O","C","T","Y","P","E">>),
                 Prop(<<"h","t","m","l">>, <<"h","t","m","l">>) >>
        /\ (Len(pieces) >= 2 /\ pieces[2].kind = "open") =>
              /\ control.nodes[TopLevel[1]].children # <<>>
              /\ control.nodes[control.nodes[TopLevel[1]].children[1]].type = pieces[2].name

\* The top-level nodes of plain markup parsing of the same characters.
PlainForest == Forest(Parse("stack", html, options), options)

\* C30: the options-taking parser called without values treats a backslash,
\* '${...}' and '{{' / '}}' as ordinary characters: its tree is the tree of
\* plain markup parsing of the same characters.
C30_MarkersAreOrdinary ==
    (Returned /\ impl = "options") => Forest(control, options) = PlainForest

\* The same for markup without a backslash, '${' and '{{'.
PlainMarkupSameTree ==
    (Returned /\ impl = "options" /\ \A k \in 1..Len(pieces) : pieces[k].kind # "marker")
        => Forest(control, options) = PlainForest

\* What becomes of the three markers in text, without values: the backslash
\* and the character after it are one escaped character, '${x}' is an empty
\* Text node, and the text is split before '{{' and after '}}'.
MarkersHandled ==
    (Returned /\ impl = "options" /\ ~options.valuesNull) =>
        /\ TextOf(pieces) = <<"a","\\","b">> => TextValues = << <<"a", CharBS>> >>
        /\ TextOf(pieces) = <<"$","{","x","}">> => TextValues = << <<>> >>
        /\ TextOf(pieces) = <<"x","{","{","y","}","}","x">> =>
              TextValues = << <<"x">>, <<"{","{","y","}","}">>, <<"x">> >>

\* The markup holds a '${...}' marker.
HasExpression ==
    \E k \in 1..Len(pieces) : pieces[k].text = <<"$","{","x","}">>

\* C31: no Text node of a tree the options-taking parser returns has an empty
\* textContent value.
C31_NoEmptyText ==
    (Returned /\ impl = "options") =>
        \A k \in 1..Len(TextValues) : TextValues[k] # <<>>

\* Without a '${...}' marker no Text node is empty: a text run of which
\* nothing is left produces no node.
NoEmptyTextWithoutExpression ==
    (Returned /\ impl = "options" /\ ~HasExpression) =>
        \A k \in 1..Len(TextValues) : TextValues[k] # <<>>

\* Each '${...}' marker in text makes one empty Text node when no values are
\* given.
EmptyTextPerExpression ==
    (Returned /\ impl = "options") =>
        Len(SelectSeq(TextValues, LAMBDA v : v = <<>>))
            = Len(SelectSeq(pieces, LAMBDA p : p.text = <<"$","{","x","}">>))

\* Markup with void tags written with a '/' and a space before '>', for the
\* options-taking parser with and without excludeParent.
FieldFragments == {
    Fragment("locked", <<"b","r">>, <<"<","b","r"," ","/"," ",">">>),
    Fragment("void", <<"b","r">>, <<"<","b","r"," ","k"," ","/",">">>),
    Fragment("open", <<"a">>, <<"<","a"," ","k","=","\"","v","\"",">">>),
    Fragment("close", <<"a">>, <<"<","/","a",">">>),
    Fragment("close", <<"b">>, <<"<","/","b"," ",">">>),
    Fragment("text", <<>>, <<"x">>),
    Comment(<<"c">>) }

FieldOptions == { DefaultOptions, [DefaultOptions EXCEPT !.excludeParent = TRUE] }

InitFields ==
    \E ps \in Markups(FieldFragments, MaxPieces), opt \in FieldOptions :
        InitWith(ps, TRUE, "options", opt)

SpecFields == InitFields /\ [][Next]_vars

\* The construction-time fields of a node other than locked are absent.
NoAttributeFields(n) ==
    /\ n.attributeName = <<>>
    /\ ~n.attributeValue.def
    /\ ~n.attributeIsReadyToClose
    /\ n.insideQuote = "absent"
    /\ ~n.closingTag
    /\ ~n.closing

\* C32: no node of a tree the options-taking parser returns carries
\* attributeName, attributeValue, attributeIsReadyToClose, insideQuote,
\* closingTag, closing or locked.
C32_NoConstructionFields ==
    (Returned /\ impl = "options") =>
        \A n \in TreeOf(control.nodes, finalResult) :
            NoAttributeFields(control.nodes[n]) /\ ~control.nodes[n].locked

\* The six fields other than locked are absent from every node, and locked is
\* carried by void elements only, one for each void tag written with a
\* character that is neither '/' nor of a name after its '/'.
OnlyLockedIsLeft ==
    (Returned /\ impl = "options") =>
        /\ \A n \in 1..Len(control.nodes) : NoAttributeFields(control.nodes[n])
        /\ \A n \in 1..Len(control.nodes) :
              control.nodes[n].locked => IsVoidName(control.nodes[n].type)
        /\ Cardinality({ n \in 1..Len(control.nodes) : control.nodes[n].locked })
              = Len(OfKind(pieces, "locked"))

\* C33: render leaves the tree it is given as it is: every node, with its
\* props and children, and the tree reference are the same after render has
\* returned or thrown, for every combination of options.
C33_RenderReadsOnly ==
    [][pc = "returned" => (control' = control /\ finalResult' = finalResult)]_vars

\* render has returned '<p>&lt;&amp;&gt;</p>' for a p element with a null
\* child and a Text child '<&>', and the tree still holds both as given.
C33_Witness ==
    /\ Rendered /\ impl = "none" /\ finalResult = 1
    /\ control.nodes = HeapOf(Term(Element(<<"p">>, <<>>),
                                   <<NullTerm, Term(TextNode(SpecialText), <<>>)>>))
    /\ control.nodes[1].children = <<0, 2>>
    /\ out = <<"<","p",">","&","l","t",";","&","a","m","p",";","&","g","t",";","<","/","p",">">>

\* Markup with an escaped character, a '${...}' marker, an unterminated '${'
\* and an unmatched closing tag, for both parsers.
PassFragments == {
    Fragment("marker", <<>>, <<"a","\\","b">>),
    Fragment("marker", <<>>, <<"$","{","x","}">>),
    Fragment("marker", <<>>, <<"$","{">>),
    Fragment("text", <<>>, <<"x">>),
    Fragment("open", <<"a">>, <<"<","a"," ","k","=","\"","v","\"",">">>),
    Fragment("close", <<"a">>, <<"<","/","a",">">>),
    Fragment("close", <<"b">>, <<"<","/","b",">">>),
    Comment(<<"c">>) }

\* No call has been made yet.
InitPass ==
    /\ pieces = <<>>
    /\ html = <<>>
    /\ htmlIsString = TRUE
    /\ impl = "none"
    /\ options = DefaultOptions
    /\ i = 0
    /\ pc = "idle"
    /\ control = InitControl
    /\ error = ""
    /\ finalResult = 0
    /\ out = <<>>

\* A caller passes markup to one of the two parsers.
Call ==
    /\ pc = "idle"
    /\ \E ps \in Markups(PassFragments, MaxPieces), parser \in {"stack", "options"} :
          /\ pieces' = ps
          /\ html' = TextOf(ps)
          /\ impl' = parser
    /\ pc' = "validate"
    /\ UNCHANGED <<htmlIsString, options, i, control, error, finalResult, out>>

NextPass == Call \/ Next

\* The main loop has a character left, and one iteration of it.
Looping == pc = "loop" /\ i < Len(html)

Iteration ==
    text \/ comments \/ processTag \/ closeTag \/ attributeNameStep \/ attributeValueStep

\* A call runs on: the validation, each iteration of the loop and the final
\* commit are steps of one sequential function.  The fairness of Iteration is
\* weak fairness with Looping written for ENABLED <<Iteration>>_vars: some
\* action handles every character, and its step changes i.
SpecPass ==
    /\ InitPass /\ [][NextPass]_vars
    /\ WF_vars(Validate) /\ WF_vars(Finish)
    /\ ([]<>(~Looping) \/ []<><<Iteration>>_vars)

\* Some action handles every character the loop comes to.
IterationEnabled ==
    Looping => Prepared.c.action \in {"text", "comments", "processTag", "closeTag",
                                      "attributeName", "attributeValue"}

\* The parent field of a node refers to a node created before it, and the
\* ancestor stack holds nodes in the order of their creation: a lookup that
\* follows either comes to an end.
LookupsEnd ==
    /\ \A n \in 1..Len(control.nodes) : control.nodes[n].parent < n
    /\ control.hasTag => control.tag.parent <= Len(control.nodes)
    /\ \A k \in 1..Len(control.stack) :
          /\ control.stack[k] \in 2..Len(control.nodes)
          /\ k > 1 => control.stack[k - 1] < control.stack[k]

\* C34: parsing is one pass from left to right that comes to an end: every
\* iteration of the main loop moves the input index forward, also past an
\* escaped character and a '${...}' expression, the lookups of a closing tag
\* end, and the parser returns or throws.
C34_SinglePass ==
    /\ [][(pc = "loop" /\ i < Len(html)) => (i' > i /\ i' <= Len(html) + 1)]_vars
    /\ []LookupsEnd
    /\ (pc = "validate") ~> (pc \in {"returned", "threw"})

\* The options-taking parser has returned for markup with an escaped character
\* and a '${...}' marker, the index at the end of the input.
C34_Witness ==
    /\ pc = "returned" /\ impl = "options" /\ i = Len(html)
    /\ html = <<"a","\\","b","$","{","x","}","<","/","b",">">>

\* Markup for the stack-based parser with a tag that is not finished, nested
\* and unmatched closing tags, a void tag and a self-closed tag.
StackFragments == {
    Fragment("unfinished", <<"a">>, <<"<","a">>),
    Fragment("open", <<"a">>, <<"<","a",">">>),
    Fragment("open", <<"b">>, <<"<","b"," ","k","=","\"","v","\"",">">>),
    Fragment("close", <<"a">>, <<"<","/","a",">">>),
    Fragment("close", <<"b">>, <<"<","/","b",">">>),
    Fragment("void", <<"b","r">>, <<"<","b","r",">">>),
    Fragment("selfclose", <<"c">>, <<"<","c","/",">">>),
    Fragment("text", <<>>, <<"x">>),
    Comment(<<"c">>) }

InitStack ==
    \E ps \in Markups(StackFragments, MaxPieces) : InitWith(ps, TRUE, "stack", DefaultOptions)

SpecStack == InitStack /\ [][Next]_vars

\* The states in which a tag is being read.
TagStates == {"processTag", "attributeName", "attributeValue", "closeTag"}

\* The next character is a '<' that processTag handles while a tag is in
\* progress: it makes a new tag record in place of the one in progress.
SecondTag ==
    /\ Looping /\ control.hasTag
    /\ Prepared.c.action = "processTag" /\ Prepared.char = "<"

\* C35: in the stack-based parser a tag record exists exactly in the states
\* processTag, attributeName, attributeValue and closeTag, a '<' never starts
\* a second tag while one is in progress, and no action reads a missing tag
\* record.
C35_TagRecord ==
    impl = "stack" =>
        /\ pc = "loop" => (control.hasTag <=> control.action \in TagStates)
        /\ ~SecondTag
        /\ ~control.threw

\* The same without the '<': the tag record exists exactly in the four tag
\* states, and none is missing where one is read.
TagRecordIffTagState ==
    impl = "stack" =>
        /\ pc = "loop" => (control.hasTag <=> control.action \in TagStates)
        /\ ~control.threw

\* A '<' starts a second tag only while the name of the first is read, and the
\* first tag is lost with what was read of it.
SecondTagDropsFirst ==
    [][(impl = "stack" /\ SecondTag) =>
          /\ control.action = "processTag"
          /\ control'.hasTag /\ control'.tag = NoTag
          /\ Len(control'.nodes) = Len(control.nodes)]_vars

\* A '<' in the other tag states leaves the tag in progress.
TagKeptInOtherStates ==
    [][(impl = "stack" /\ Looping /\ control.hasTag /\ At(html, i) = "<"
            /\ control.action # "processTag") =>
          /\ control'.hasTag
          /\ control'.tag.type = control.tag.type
          /\ control'.tag.props = control.tag.props]_vars

\* The children of a node, as a set.
ChildSet(n) == { control.nodes[n].children[k] : k \in 1..Len(control.nodes[n].children) }

\* The stack is the path from the root to current, without void elements.
StackIsPath ==
    /\ control.current = (IF control.stack = <<>> THEN Root
                          ELSE control.stack[Len(control.stack)])
    /\ \A k \in 1..Len(control.stack) :
          /\ control.stack[k] \in ChildSet(IF k = 1 THEN Root ELSE control.stack[k - 1])
          /\ ~IsVoidName(control.nodes[control.stack[k]].type)

\* The step commits a tag that is void or was written with a '/'.
CommitsVoidOrSelfClosed ==
    /\ control.hasTag /\ ~control'.hasTag
    /\ IsVoidName(control.tag.type) \/ control.tag.closing

\* C36: in the stack-based parser the ancestor stack is the path from the root
\* to the insertion point after every character: current is the top of the
\* stack, or the root when the stack is empty, the bottom entry is a child of
\* the root, every other entry is a child of the entry below it, and no void
\* or self-closed element is on the stack, as none is ever pushed.
C36_StackIsPath ==
    /\ [](impl = "stack" => StackIsPath)
    /\ [][(impl = "stack" /\ CommitsVoidOrSelfClosed) =>
              /\ Len(control'.stack) <= Len(control.stack)
              /\ control'.stack = SubSeq(control.stack, 1, Len(control'.stack))]_vars

\* After <a><b k="v"><br><c/> the stack is a, b; b is current and holds the
\* two leaves.
C36_Witness ==
    /\ impl = "stack" /\ pc = "loop" /\ i = Len(html)
    /\ Len(pieces) = 3 /\ pieces[3].kind \in {"void", "selfclose"}
    /\ control.stack = <<2, 3>> /\ control.current = 3
    /\ control.nodes[3].children = <<4>>
    /\ control.nodes[2].children = <<3>>

\* The committed nodes that are not on the ancestor stack: the elements that
\* were closed, the void and self-closed leaves, the Text and Comment nodes.
OffStack ==
    { n \in 2..Len(control.nodes) : \A k \in 1..Len(control.stack) : control.stack[k] # n }

\* C37: in the stack-based parser an element that has left the ancestor stack,
\* or was committed as a void or self-closed leaf, is never the insertion
\* point again, and no later step changes its type, props or children.
C37_ClosedStaysClosed ==
    [][impl = "stack" =>
          \A n \in OffStack :
              /\ control'.nodes[n] = control.nodes[n]
              /\ control'.current # n
              /\ \A k \in 1..Len(control'.stack) : control'.stack[k] # n]_vars

\* <b k="v"></b>x has been parsed: b was closed before the text, which is its
\* sibling, and b has its props and no children.
C37_Witness ==
    /\ impl = "stack" /\ Returned
    /\ html = <<"<","b"," ","k","=","\"","v","\"",">","<","/","b",">","x">>
    /\ control.nodes[Root].children = <<2, 3>>
    /\ control.nodes[2].type = <<"b">> /\ control.nodes[2].children = <<>>
    /\ control.nodes[2].props = <<Prop(<<"k">>, <<"v">>)>>
    /\ control.nodes[3].type = TextType

\* The same call without excludeParent.
WithParent == Parse("options", html, [options EXCEPT !.excludeParent = FALSE])

\* C38: in the options-taking parser excludeParent changes the parent fields
\* only: the tree returned with it has the types, props and children, in
\* their nesting and order, of the tree returned without it, and the warnings
\* are the same.
C38_ExcludeParentOnlyParent ==
    (Returned /\ impl = "options" /\ options.excludeParent) =>
        /\ Forest(control, options) = Forest(WithParent, options)
        /\ (finalResult = 0) <=> (FinalResult(WithParent) = 0)
        /\ control.warnings = WithParent.warnings

\* With excludeParent no node has a parent field, and the trees are the same
\* for markup without a closing tag.
ExcludeParentWithoutClosingTag ==
    (Returned /\ impl = "options" /\ options.excludeParent) =>
        /\ \A n \in 1..Len(control.nodes) : control.nodes[n].parent = 0
        /\ OfKind(pieces, "close") = <<>> =>
              Forest(control, options) = Forest(WithParent, options)

\* With excludeParent a matched closing tag leaves the insertion point where
\* it is: the text after <a k="v"></a> is a child of a.
ClosingTagKeepsCurrent ==
    (Returned /\ impl = "options" /\ options.excludeParent
        /\ html = <<"<","a"," ","k","=","\"","v","\"",">","<","/","a",">","x">>) =>
        /\ control.nodes[Root].children = <<2>>
        /\ control.nodes[2].children = <<3>>
        /\ control.nodes[3].type = TextType
        /\ WithParent.nodes[Root].children = <<2, 3>>

\* Markup that may end in a tag without its '>', a tag left open by a quote
\* that is not closed, a stray '<' in text, or a comment without its '-->'.
UnfinishedFragments == {
    Fragment("unfinished", <<"a">>, <<"<","a">>),
    Fragment("unfinished", <<"a">>, <<"<","a"," ","k","=","\"","v",">","y">>),
    Fragment("unfinished", <<>>, <<"<"," ","y">>),
    Fragment("unfinished", <<>>, <<"<","!","-","-","c","-",">">>),
    Fragment("open", <<"a">>, <<"<","a"," ","k","=","\"","v","\"",">">>),
    Fragment("close", <<"a">>, <<"<","/","a",">">>),
    Fragment("text", <<>>, <<"x">>),
    Comment(<<"c">>) }

InitUnfinished ==
    \E ps \in Markups(UnfinishedFragments, MaxPieces), parser \in {"stack", "options"} :
        InitWith(ps, TRUE, parser, DefaultOptions)

SpecUnfinished == InitUnfinished /\ [][Next]_vars

\* The markup ends in a tag or comment that is not finished, after pieces that
\* are.
EndsUnfinished ==
    /\ Len(pieces) >= 1
    /\ pieces[Len(pieces)].kind = "unfinished"
    /\ \A k \in 1..(Len(pieces) - 1) : pieces[k].kind # "unfinished"

\* The parse of the markup before the '<' of the unfinished tag or comment.
BeforeUnfinished == Parse(impl, TextOf(SubSeq(pieces, 1, Len(pieces) - 1)), options)

\* The warnings without their positions.
Messages(warnings) ==
    [k \in 1..Len(warnings) |-> [message |-> warnings[k].message, tag |-> warnings[k].tag]]

\* C39: at the end of the input a tag without its '>' and a comment without
\* its '-->' are discarded: the nodes, the result and the warnings are those
\* of the markup before their '<', whose pending text is committed.
C39_UnfinishedDiscarded ==
    (Returned /\ EndsUnfinished) =>
        /\ control.nodes = BeforeUnfinished.nodes
        /\ finalResult = FinalResult(BeforeUnfinished)
        /\ Messages(control.warnings) = Messages(BeforeUnfinished.warnings)
        /\ control.text = <<>>

\* x<a k="v>y has been parsed: the result is the Text node 'x', and the tag
\* is still in progress, inside its quote.
C39_Witness ==
    /\ pc = "returned" /\ impl = "stack"
    /\ html = <<"x","<","a"," ","k","=","\"","v",">","y">>
    /\ Len(control.nodes) = 2 /\ finalResult = 2
    /\ control.nodes[2] = TextNode(<<"x">>)
    /\ control.hasTag /\ control.tag.insideQuote # "absent"

====
